---- MODULE Spec2Model ----
(***************************************************************************)
(* Persistence layer of the Merkle Sum Sparse Tree of the cdk mint: the    *)
(* key-value backend (crates/cdk-redb/src/mint/mssmt.rs) and the           *)
(* relational backend (crates/cdk-sqlite/src/mssmt.rs), driven by the same *)
(* sequence of storage-contract calls.                                     *)
(***************************************************************************)
EXTENDS Integers, Sequences, FiniteSets, TLC

\* ------------------------------------------------------------ constants

\* const TREE_SIZE: usize = 257
TREE_SIZE == 257

\* ------------------------------------------------------------ bounds

\* bytes of a node hash ([u8; 32] in the code)
HASH_LEN == 2
\* bytes of a serialized sum (u64::to_be_bytes, 8 in the code)
SUM_LEN == 2

\* number of contract calls in one behaviour
MaxOps == 3
\* get_children is called with height in 0..MaxHeight
MaxHeight == 1
\* number of calls made through the clones of one ArcTreeStore
MaxCalls == 2
\* number of Config values allocated by one SwappableConfig
MaxSnapshots == 3
\* bits of an Amount (u64 in the code)
AMOUNT_BITS == 3

\* ------------------------------------------------------------ namespaces

\* "default", the namespace of a new handle
NS_DEFAULT == <<100, 101, 102, 97, 117, 108, 116>>
\* "d", a proper prefix of "default"
NS_D == <<100>>
Namespaces == {NS_DEFAULT, NS_D}

\* ------------------------------------------------------------ hashes
\* SHA-256 is an opaque digest; the model uses distinguishable strings of
\* HASH_LEN symbols for the digests it needs: a tag, padding, a payload.

Digest(tag, payload) ==
    [k \in 1..HASH_LEN |->
        IF k = 1 THEN tag ELSE IF k = HASH_LEN THEN payload ELSE 0]

Hash(i) == Digest(i, i)

\* hash of the empty subtree of depth h, empty_tree()[h].hash()
EmptyHash(h) == Digest(255, h)

\* Leaf::new(value, sum).hash(): a function of (value, sum); the empty leaf
\* is the last entry of the empty tree
LeafHash(leaf) ==
    IF leaf.value = <<>> /\ leaf.sum = 0
    THEN EmptyHash(TREE_SIZE - 1)
    ELSE Digest(254, leaf.sum + 16 * Len(leaf.value)
                     + 64 * (IF leaf.value = <<>> THEN 0 ELSE leaf.value[1]))

\* ------------------------------------------------------------ nodes

None == [kind |-> "None"]

LeafNode(value, sum) ==
    [kind |-> "Leaf", hash |-> LeafHash([value |-> value, sum |-> sum]),
     value |-> value, sum |-> sum]

\* CompactLeaf::new_with_hash(hash, leaf, key)
CompactNode(hash, leaf, key) ==
    [kind |-> "Compact", hash |-> hash, key |-> key, leaf |-> leaf,
     sum |-> leaf.sum]

\* Branch::new_with_hash(left, right, hash, sum)
BranchNode(left, right, hash, sum) ==
    [kind |-> "Branch", hash |-> hash, sum |-> sum,
     left |-> left, right |-> right]

\* ComputedNode::new(hash, sum)
ComputedNode(hash, sum) == [kind |-> "Computed", hash |-> hash, sum |-> sum]

\* empty_tree()[h]: a branch over two empty subtrees of depth h + 1, and
\* the empty leaf at the last depth
EmptyNode(h) ==
    [kind |-> "Empty", height |-> h, hash |-> EmptyHash(h), sum |-> 0]

\* Branch::empty_branch()
EmptyBranch == EmptyNode(0)

\* if let Node::Branch(branch) = node
IsBranch(node) ==
    \/ node.kind = "Branch"
    \/ node.kind = "Empty" /\ node.height < TREE_SIZE - 1

\* branch.left().hash() and branch.right().hash()
LeftHash(node) ==
    IF node.kind = "Empty" THEN EmptyHash(node.height + 1) ELSE node.left.hash
RightHash(node) ==
    IF node.kind = "Empty" THEN EmptyHash(node.height + 1) ELSE node.right.hash

\* ------------------------------------------------------------ inputs

L1 == [value |-> <<7>>, sum |-> 1]
L2 == [value |-> <<8, 9>>, sum |-> 2]
LeafInputs == {L1, L2}

H1 == Hash(1)
H2 == Hash(2)
H3 == Hash(3)
H4 == Hash(4)

\* a branch as insert_branch and update_root read it: its hash, the hashes
\* of its children and its sum
BranchInputs ==
    { [hash |-> H1, left |-> LeafHash(L1), right |-> EmptyHash(1), sum |-> 1],
      [hash |-> H1, left |-> H3, right |-> LeafHash(L2), sum |-> 2],
      [hash |-> H2, left |-> H1, right |-> H4, sum |-> 2],
      [hash |-> EmptyHash(0), left |-> EmptyHash(1), right |-> EmptyHash(1),
       sum |-> 0] }

CompactInputs ==
    { [hash |-> H4, key |-> Hash(9), leaf |-> L1],
      [hash |-> H1, key |-> Hash(8), leaf |-> L2] }

\* the hashes get_children is called with
QueryHashes == {H1, H2, H3, LeafHash(L1), EmptyHash(0), EmptyHash(1)}

\* the hashes get_leaf and the delete calls are called with
DeleteHashes == {H1, LeafHash(L1)}

Heights == 0..MaxHeight

VARIABLES
    redb_branches,   \* BRANCHES_TABLE: namespace ++ hash -> branch record
    redb_leaves,     \* LEAVES_TABLE: namespace ++ hash -> leaf record
    redb_compact,    \* COMPACT_LEAVES_TABLE: namespace ++ hash -> record
    redb_roots,      \* ROOTS_TABLE: namespace -> root hash
    redb_ns,         \* RedbStore.namespace
    sql_nodes,       \* rows of mssmt_nodes
    sql_roots,       \* rows of mssmt_roots
    sql_ns,          \* SqliteStore.namespace
    last,            \* the last contract call and what each backend returned
    nops,            \* contract calls made so far
    guard,           \* ArcTreeStore: the clone holding the Mutex, or "free"
    pc,              \* ArcTreeStore: where each clone is in its call
    req,             \* ArcTreeStore: the call of each clone and its result
    own_ns,          \* ArcTreeStore: the namespace each clone last set itself
    engine,          \* whether the storage engine failed during the last call
    cfg_heap,        \* SwappableConfig: the Config values allocated so far
    cfg_cur,         \* SwappableConfig: the allocation the ArcSwap points to
    cfg_pc,          \* SwappableConfig: where each thread is in its setter
    cfg_new,         \* SwappableConfig: the setter each thread is inside
    cfg_held,        \* SwappableConfig: the snapshot each thread loaded
    melted           \* Melted::from_proofs: the arguments and the result

redb_vars == <<redb_branches, redb_leaves, redb_compact, redb_roots, redb_ns>>
sql_vars == <<sql_nodes, sql_roots, sql_ns>>
wrap_vars == <<guard, pc, req, own_ns>>
cfg_vars == <<cfg_heap, cfg_cur, cfg_pc, cfg_new, cfg_held>>
vars == <<redb_vars, sql_vars, last, nops, wrap_vars, engine, cfg_vars, melted>>

\* ============================================================ key-value backend

\* a store key that leaves the namespace out
RedKeyNoNamespace(ns, key) == key

\* [self.namespace.as_bytes(), key].concat()
RedKey(ns, key) == ns \o key

\* u64::to_be_bytes, n bytes wide
RECURSIVE ToBeBytes(_, _)
ToBeBytes(sum, n) ==
    IF n = 0 THEN <<>> ELSE Append(ToBeBytes(sum \div 256, n - 1), sum % 256)

\* u64::from_be_bytes
RECURSIVE FromBeBytes(_)
FromBeBytes(bytes) ==
    IF bytes = <<>> THEN 0
    ELSE 256 * FromBeBytes(SubSeq(bytes, 1, Len(bytes) - 1)) + bytes[Len(bytes)]

serialize_branch(branch) ==
    branch.left \o branch.right \o ToBeBytes(branch.sum, SUM_LEN)

deserialize_branch(data) ==
    [left |-> SubSeq(data, 1, HASH_LEN),
     right |-> SubSeq(data, HASH_LEN + 1, 2 * HASH_LEN),
     sum |-> FromBeBytes(SubSeq(data, 2 * HASH_LEN + 1, 2 * HASH_LEN + SUM_LEN))]

serialize_leaf(leaf) == ToBeBytes(leaf.sum, SUM_LEN) \o leaf.value

\* a reader that takes the whole record for the value
deserialize_leaf_whole(data) ==
    [sum |-> FromBeBytes(SubSeq(data, 1, SUM_LEN)), value |-> data]

deserialize_leaf(data) ==
    [sum |-> FromBeBytes(SubSeq(data, 1, SUM_LEN)),
     value |-> SubSeq(data, SUM_LEN + 1, Len(data))]

serialize_compact_leaf(compact) == compact.key \o serialize_leaf(compact.leaf)

deserialize_compact_leaf(data) ==
    [key |-> SubSeq(data, 1, HASH_LEN),
     sum |-> FromBeBytes(SubSeq(data, HASH_LEN + 1, HASH_LEN + SUM_LEN)),
     value |-> SubSeq(data, HASH_LEN + SUM_LEN + 1, Len(data))]

\* table.insert(key, value): the record under an existing key is replaced
TableInsert(table, key, value) ==
    [k \in DOMAIN table \cup {key} |-> IF k = key THEN value ELSE table[k]]

\* a remove that removes nothing
TableRemoveNothing(table, key) == table

\* table.remove(key)
TableRemove(table, key) == [k \in DOMAIN table \ {key} |-> table[k]]

\* In the read operators, CHOOSE r \in {e(v) : v \in {x}} : TRUE stands for
\* LET v == x IN e(v), with x evaluated once.

RedbGetLeaf(ns, key) ==
    IF RedKey(ns, key) \in DOMAIN redb_leaves
    THEN CHOOSE r \in {LeafNode(rec.value, rec.sum) :
                rec \in {deserialize_leaf(redb_leaves[RedKey(ns, key)])}} : TRUE
    ELSE None

RedbGetCompactLeaf(ns, key) ==
    IF RedKey(ns, key) \in DOMAIN redb_compact
    THEN CHOOSE r \in
            {CompactNode(key, [value |-> rec.value, sum |-> rec.sum], rec.key) :
                rec \in {deserialize_compact_leaf(
                             redb_compact[RedKey(ns, key)])}} : TRUE
    ELSE None

\* a probe that asks the compact-leaf table before the other two
FirstFoundCompactFirst(node, leaf, compact, empty) ==
    IF compact.kind # "None" THEN compact
    ELSE IF node.kind # "None" THEN node
    ELSE IF leaf.kind # "None" THEN leaf
    ELSE empty

\* branch, else leaf, else compact leaf, else the given empty node
FirstFound(node, leaf, compact, empty) ==
    IF node.kind # "None" THEN node
    ELSE IF leaf.kind # "None" THEN leaf
    ELSE IF compact.kind # "None" THEN compact
    ELSE empty

RECURSIVE RedbGetBranch(_, _)
\* the get_node closure of get_branch
RedbBranchChild(ns, key) ==
    CHOOSE r \in
        {FirstFound(node, leaf, compact, EmptyNode(0)) :
            node \in {RedbGetBranch(ns, key)},
            leaf \in {RedbGetLeaf(ns, key)},
            compact \in {RedbGetCompactLeaf(ns, key)}} : TRUE

RedbGetBranch(ns, key) ==
    IF RedKey(ns, key) \in DOMAIN redb_branches
    THEN CHOOSE r \in
            {BranchNode(RedbBranchChild(ns, rec.left),
                        RedbBranchChild(ns, rec.right), key, rec.sum) :
                rec \in {deserialize_branch(redb_branches[RedKey(ns, key)])}}
            : TRUE
    ELSE None

RedbGetRootNode(ns) ==
    IF ns \in DOMAIN redb_roots /\ Len(redb_roots[ns]) = HASH_LEN
    THEN RedbGetBranch(ns, redb_roots[ns])
    ELSE None

\* the get_node closure of get_children
RedbGetNode(ns, height, key) ==
    IF key = EmptyHash(height) THEN EmptyNode(height)
    ELSE CHOOSE r \in
            {FirstFound(node, leaf, compact, EmptyNode(height)) :
                node \in {RedbGetBranch(ns, key)},
                leaf \in {RedbGetLeaf(ns, key)},
                compact \in {RedbGetCompactLeaf(ns, key)}} : TRUE

Ok == [tag |-> "Ok"]
Err(e) == [tag |-> "Err", err |-> e]
Children(left, right) == [tag |-> "Ok", left |-> left, right |-> right]

\* get_children once node = get_node(height, key) is known
RedbChildrenOf(ns, height, key, node) ==
    IF key # EmptyHash(height) /\ node.hash = EmptyHash(height)
    THEN Err("NodeNotFound")
    ELSE IF IsBranch(node)
    THEN Children(RedbGetNode(ns, height + 1, LeftHash(node)),
                  RedbGetNode(ns, height + 1, RightHash(node)))
    ELSE Err("ExpectedBranch")

RedbGetChildren(ns, height, key) ==
    CHOOSE r \in {RedbChildrenOf(ns, height, key, node) :
                     node \in {RedbGetNode(ns, height, key)}} : TRUE

RedbInsertLeaf(leaf) ==
    /\ redb_leaves' = TableInsert(redb_leaves, RedKey(redb_ns, LeafHash(leaf)),
                                  serialize_leaf(leaf))
    /\ UNCHANGED <<redb_branches, redb_compact, redb_roots, redb_ns>>

RedbInsertBranch(branch) ==
    /\ redb_branches' = TableInsert(redb_branches, RedKey(redb_ns, branch.hash),
                                    serialize_branch(branch))
    /\ UNCHANGED <<redb_leaves, redb_compact, redb_roots, redb_ns>>

RedbInsertCompactLeaf(compact) ==
    /\ redb_compact' = TableInsert(redb_compact, RedKey(redb_ns, compact.hash),
                                   serialize_compact_leaf(compact))
    /\ UNCHANGED <<redb_branches, redb_leaves, redb_roots, redb_ns>>

RedbUpdateRoot(root) ==
    /\ redb_roots' = TableInsert(redb_roots, redb_ns, root.hash)
    /\ UNCHANGED <<redb_branches, redb_leaves, redb_compact, redb_ns>>

RedbDeleteBranch(key) ==
    /\ redb_branches' = TableRemove(redb_branches, RedKey(redb_ns, key))
    /\ UNCHANGED <<redb_leaves, redb_compact, redb_roots, redb_ns>>

RedbDeleteLeaf(key) ==
    /\ redb_leaves' = TableRemove(redb_leaves, RedKey(redb_ns, key))
    /\ UNCHANGED <<redb_branches, redb_compact, redb_roots, redb_ns>>

RedbDeleteCompactLeaf(key) ==
    /\ redb_compact' = TableRemove(redb_compact, RedKey(redb_ns, key))
    /\ UNCHANGED <<redb_branches, redb_leaves, redb_roots, redb_ns>>

\* a rebind that also forgets the recorded roots
RedbSetNamespaceForgetful(ns) ==
    /\ redb_ns' = ns
    /\ redb_roots' = <<>>
    /\ UNCHANGED <<redb_branches, redb_leaves, redb_compact>>

RedbSetNamespace(ns) ==
    /\ redb_ns' = ns
    /\ UNCHANGED <<redb_branches, redb_leaves, redb_compact, redb_roots>>

\* ============================================================ relational backend

\* SQL NULL
NULL == <<-1>>

\* row.get::<Vec<u8>>(column): NULL decodes to the empty vector
AsVec(col) == IF col = NULL THEN <<>> ELSE col

\* bits of a sum (64 in the code)
SumBits == 8 * SUM_LEN

\* a conversion that stops at the greatest signed value
AsI64Saturating(sum) ==
    IF sum >= 2 ^ (SumBits - 1) THEN 2 ^ (SumBits - 1) - 1 ELSE sum

\* `sum as i64` on insert: the two's complement reading of the same bits
AsI64(sum) == IF sum >= 2 ^ (SumBits - 1) THEN sum - 2 ^ SumBits ELSE sum
\* `sum as u64` on read
AsU64(sum) == sum % (2 ^ SumBits)

\* the unique key (hash_key, namespace) of mssmt_nodes
SqlNodeRows(ns, key) ==
    {row \in sql_nodes : row.hash_key = key /\ row.namespace = ns}

\* the unique key (namespace) of mssmt_roots
SqlRootRows(ns) == {row \in sql_roots : row.namespace = ns}

\* fetch_optional: the row under the unique key, if there is one
SqlLeafOfRow(row) ==
    IF AsVec(row.l_hash_key) = <<>> /\ AsVec(row.r_hash_key) = <<>>
    THEN LeafNode(AsVec(row.value), AsU64(row.sum))
    ELSE None

SqliteGetLeaf(ns, key) ==
    IF SqlNodeRows(ns, key) # {}
    THEN CHOOSE r \in {SqlLeafOfRow(row) : row \in SqlNodeRows(ns, key)} : TRUE
    ELSE None

RECURSIVE SqliteGetBranch(_, _)
\* self.get_branch(&hash).unwrap_or_else(Branch::empty_branch)
SqliteBranchChild(ns, key) ==
    CHOOSE r \in {IF node.kind # "None" THEN node ELSE EmptyBranch :
                     node \in {SqliteGetBranch(ns, key)}} : TRUE

SqlBranchOfRow(ns, key, row) ==
    IF Len(AsVec(row.l_hash_key)) = HASH_LEN
       /\ Len(AsVec(row.r_hash_key)) = HASH_LEN
    THEN BranchNode(SqliteBranchChild(ns, row.l_hash_key),
                    SqliteBranchChild(ns, row.r_hash_key),
                    key, AsU64(row.sum))
    ELSE None

SqliteGetBranch(ns, key) ==
    IF SqlNodeRows(ns, key) # {}
    THEN CHOOSE r \in {SqlBranchOfRow(ns, key, row) :
                          row \in SqlNodeRows(ns, key)} : TRUE
    ELSE None

\* FROM mssmt_nodes nodes JOIN mssmt_roots roots
\*   ON roots.root_hash = nodes.hash_key AND roots.namespace = ?
SqlRootJoin(ns) ==
    {node \in sql_nodes :
        \E root \in sql_roots :
            root.root_hash = node.hash_key /\ root.namespace = ns}

SqliteGetRootNode(ns) ==
    IF SqlRootJoin(ns) # {}
    THEN CHOOSE r \in
            {IF Len(row.hash_key) = HASH_LEN
             THEN SqliteGetBranch(ns, row.hash_key) ELSE None :
                row \in SqlRootJoin(ns)} : TRUE
    ELSE None

\* one step of the recursive member of mssmt_branches_cte: the rows of the
\* parents' namespace whose hash_key is a child hash of a parent
CteStep(parents) ==
    {n \in sql_nodes :
        \E b \in parents :
            /\ n.namespace = b.namespace
            /\ (n.hash_key = b.l_hash_key \/ n.hash_key = b.r_hash_key)}

\* SELECT * FROM mssmt_branches_cte WHERE depth < 3, without the anchor row:
\* the rows one and two links below it
CteBelow(anchor) == CteStep({anchor}) \cup CteStep(CteStep({anchor}))

\* the rows the recursive member of mssmt_branches_cte produces from the
\* anchor: it joins on the child hashes with no condition on depth, so it
\* runs until a step adds no row; `WHERE depth < 3` is applied to its output
RECURSIVE CteReach(_)
CteReach(rows) ==
    IF CteStep(rows) \subseteq rows THEN rows
    ELSE CteReach(rows \cup CteStep(rows))

\* the rows the query visits below the anchor row
CteVisited(anchor) == CteReach({anchor}) \ {anchor}

\* the node built from a row below the anchor
SqlRowNode(row) ==
    IF row.l_hash_key = NULL /\ row.r_hash_key = NULL
    THEN IF row.key # NULL
         THEN CompactNode(row.hash_key,
                          [value |-> AsVec(row.value), sum |-> AsU64(row.sum)],
                          row.key)
         ELSE LeafNode(AsVec(row.value), AsU64(row.sum))
    ELSE ComputedNode(row.hash_key, AsU64(row.sum))

\* children taken from the depth of the requested node itself
SqlEmptyChildrenSameDepth(height) ==
    Children(EmptyNode(height), EmptyNode(height))

\* let mut left = self.empty_tree[height + 1].clone(), and right likewise
SqlEmptyChildren(height) ==
    Children(EmptyNode(height + 1), EmptyNode(height + 1))

\* for row in rows.iter().skip(1): a row whose hash_key is the anchor's left
\* hash sets left, any other row whose hash_key is its right hash sets right.
\* Under the unique key all rows of one hash_key are the same row, so the
\* outcome does not depend on the order of the rows.
SqlChildrenOf(anchor, below, height) ==
    [tag |-> "Ok",
     left |->
        IF \E row \in below : row.hash_key = AsVec(anchor.l_hash_key)
        THEN SqlRowNode(CHOOSE row \in below :
                            row.hash_key = AsVec(anchor.l_hash_key))
        ELSE SqlEmptyChildren(height).left,
     right |->
        IF \E row \in below :
              /\ row.hash_key # AsVec(anchor.l_hash_key)
              /\ row.hash_key = AsVec(anchor.r_hash_key)
        THEN SqlRowNode(CHOOSE row \in below :
                            /\ row.hash_key # AsVec(anchor.l_hash_key)
                            /\ row.hash_key = AsVec(anchor.r_hash_key))
        ELSE SqlEmptyChildren(height).right]

SqliteGetChildren(ns, height, key) ==
    IF SqlNodeRows(ns, key) = {} THEN SqlEmptyChildren(height)
    ELSE CHOOSE r \in
            {SqlChildrenOf(anchor, CteBelow(anchor), height) :
                anchor \in SqlNodeRows(ns, key)} : TRUE

SqlRow(hash, l, r, key, value, sum, ns) ==
    [hash_key |-> hash, l_hash_key |-> l, r_hash_key |-> r, key |-> key,
     value |-> value, sum |-> sum, namespace |-> ns]

\* INSERT OR IGNORE INTO mssmt_nodes
SqliteInsertLeaf(leaf) ==
    /\ sql_nodes' =
         IF SqlNodeRows(sql_ns, LeafHash(leaf)) # {} THEN sql_nodes
         ELSE sql_nodes \cup {SqlRow(LeafHash(leaf), NULL, NULL, NULL,
                                     leaf.value, AsI64(leaf.sum), sql_ns)}
    /\ UNCHANGED <<sql_roots, sql_ns>>

\* the outcome INSERT OR FAIL ... .expect(..) would give insert_leaf
SqliteInsertLeafOrFail(leaf) ==
    IF SqlNodeRows(sql_ns, LeafHash(leaf)) # {} THEN [tag |-> "Panic"] ELSE Ok

\* INSERT OR IGNORE never fails on a row that is already there
SqliteInsertLeafRet(leaf) == Ok

\* INSERT OR FAIL INTO mssmt_nodes ... .expect("Failed to insert branch")
SqliteInsertBranch(branch) ==
    /\ sql_nodes' =
         IF SqlNodeRows(sql_ns, branch.hash) # {} THEN sql_nodes
         ELSE sql_nodes \cup {SqlRow(branch.hash, branch.left, branch.right,
                                     NULL, NULL, AsI64(branch.sum), sql_ns)}
    /\ UNCHANGED <<sql_roots, sql_ns>>

SqliteInsertBranchRet(branch) ==
    IF SqlNodeRows(sql_ns, branch.hash) # {} THEN [tag |-> "Panic"] ELSE Ok

\* INSERT OR FAIL INTO mssmt_nodes ... .expect("Failed to insert compact leaf")
SqliteInsertCompactLeaf(compact) ==
    /\ sql_nodes' =
         IF SqlNodeRows(sql_ns, compact.hash) # {} THEN sql_nodes
         ELSE sql_nodes \cup {SqlRow(compact.hash, NULL, NULL, compact.key,
                                     compact.leaf.value,
                                     AsI64(compact.leaf.sum), sql_ns)}
    /\ UNCHANGED <<sql_roots, sql_ns>>

SqliteInsertCompactLeafRet(compact) ==
    IF SqlNodeRows(sql_ns, compact.hash) # {} THEN [tag |-> "Panic"] ELSE Ok

\* INSERT INTO mssmt_roots ... ON CONFLICT (namespace) DO UPDATE SET root_hash
SqliteUpdateRoot(root) ==
    /\ sql_roots' =
         IF root.hash = EmptyHash(0) THEN sql_roots
         ELSE (sql_roots \ SqlRootRows(sql_ns))
              \cup {[root_hash |-> root.hash, namespace |-> sql_ns]}
    /\ UNCHANGED <<sql_nodes, sql_ns>>

\* DELETE FROM mssmt_nodes WHERE hash_key = ? AND namespace = ?
SqliteDeleteBranch(key) ==
    /\ sql_nodes' = sql_nodes \ SqlNodeRows(sql_ns, key)
    /\ UNCHANGED <<sql_roots, sql_ns>>

SqliteDeleteLeaf(key) ==
    /\ sql_nodes' = sql_nodes \ SqlNodeRows(sql_ns, key)
    /\ UNCHANGED <<sql_roots, sql_ns>>

SqliteDeleteCompactLeaf(key) ==
    /\ sql_nodes' = sql_nodes \ SqlNodeRows(sql_ns, key)
    /\ UNCHANGED <<sql_roots, sql_ns>>

SqliteSetNamespace(ns) ==
    /\ sql_ns' = ns
    /\ UNCHANGED <<sql_nodes, sql_roots>>

\* ============================================================ the two stores in step

\* every mutating call of the key-value backend ends in write_txn.commit()
RedbRet == Ok

\* the record of a call: what was called with which arguments under which
\* namespace, what each backend returned, whether the call repeats the call
\* before it, and which tables held the addressed hash when it was made
Call(op, arg, key, height, redb, sqlite) ==
    [op |-> op, ns |-> redb_ns, arg |-> arg, key |-> key, height |-> height,
     redb |-> redb, sqlite |-> sqlite,
     repeat |-> (last.op = op /\ last.ns = redb_ns /\ last.key = key
                 /\ last.height = height /\ last.arg = arg),
     pre |-> [branch |-> RedKey(redb_ns, key) \in DOMAIN redb_branches,
              leaf |-> RedKey(redb_ns, key) \in DOMAIN redb_leaves,
              compact |-> RedKey(redb_ns, key) \in DOMAIN redb_compact,
              row |-> SqlNodeRows(sql_ns, key) # {}]]

\* the owners of one ArcTreeStore: the handle and a clone of it
Clones == {"c1", "c2"}

\* no call was made through the wrapper yet
NoCall == [op |-> "none", arg |-> <<>>, key |-> <<>>, height |-> 0, ret |-> Ok]

\* a clone that made no set_namespace call of its own
NoNamespace == <<>>

\* ArcTreeStore::new: the Mutex is free and no clone is inside a call
WrapIdle ==
    /\ guard = "free"
    /\ pc = [c \in Clones |-> "idle"]
    /\ req = [c \in Clones |-> NoCall]
    /\ own_ns = [c \in Clones |-> NoNamespace]

\* the threads sharing one SwappableConfig
Threads == {"t1", "t2"}

\* SwappableConfig::new(quote_ttl, mint_info, keysets) of the mint
Config0 == [keysets |-> "k0", mint_info |-> "m0", quote_ttl |-> "ttl0"]

\* a thread that is inside no setter, and one that loaded no snapshot
NoSet == [field |-> "none", value |-> "none", current |-> 0]
NoSnapshot == [ptr |-> 0, seen |-> Config0]

\* SwappableConfig::new: one Config allocated and made current
ConfigNew ==
    /\ cfg_heap = <<Config0>>
    /\ cfg_cur = 1
    /\ cfg_pc = [t \in Threads |-> "idle"]
    /\ cfg_new = [t \in Threads |-> NoSet]
    /\ cfg_held = [t \in Threads |-> NoSnapshot]

\* Melted::from_proofs was not called
NoMelted == [called |-> FALSE]

\* nothing outside the stores has run
Aside ==
    /\ WrapIdle
    /\ engine = "up"
    /\ ConfigNew
    /\ melted = NoMelted

\* RedbStore::new and SqliteStore::new
Init ==
    /\ redb_branches = <<>>
    /\ redb_leaves = <<>>
    /\ redb_compact = <<>>
    /\ redb_roots = <<>>
    /\ redb_ns = NS_DEFAULT
    /\ sql_nodes = {}
    /\ sql_roots = {}
    /\ sql_ns = NS_DEFAULT
    /\ last = [op |-> "new", ns |-> NS_DEFAULT, arg |-> <<>>, key |-> <<>>,
               height |-> 0, redb |-> Ok, sqlite |-> Ok, repeat |-> FALSE,
               pre |-> [branch |-> FALSE, leaf |-> FALSE, compact |-> FALSE,
                        row |-> FALSE]]
    /\ nops = 0
    /\ Aside

SetNamespace(ns) ==
    /\ RedbSetNamespace(ns)
    /\ SqliteSetNamespace(ns)
    /\ nops < MaxOps
    /\ last' = Call("set_namespace", ns, <<>>, 0, Ok, Ok)
    /\ nops' = nops + 1
    /\ engine' = "up"
    /\ UNCHANGED <<wrap_vars, cfg_vars, melted>>

GetRoot ==
    /\ nops < MaxOps
    /\ last' = Call("get_root", <<>>, <<>>, 0,
                    RedbGetRootNode(redb_ns), SqliteGetRootNode(sql_ns))
    /\ UNCHANGED <<redb_vars, sql_vars>>
    /\ nops' = nops + 1
    /\ engine' = "up"
    /\ UNCHANGED <<wrap_vars, cfg_vars, melted>>

GetChildren(height, key) ==
    /\ nops < MaxOps
    /\ last' = Call("get_children", key, key, height,
                    RedbGetChildren(redb_ns, height, key),
                    SqliteGetChildren(sql_ns, height, key))
    /\ UNCHANGED <<redb_vars, sql_vars>>
    /\ nops' = nops + 1
    /\ engine' = "up"
    /\ UNCHANGED <<wrap_vars, cfg_vars, melted>>

GetLeaf(key) ==
    /\ nops < MaxOps
    /\ last' = Call("get_leaf", key, key, 0,
                    RedbGetLeaf(redb_ns, key), SqliteGetLeaf(sql_ns, key))
    /\ UNCHANGED <<redb_vars, sql_vars>>
    /\ nops' = nops + 1
    /\ engine' = "up"
    /\ UNCHANGED <<wrap_vars, cfg_vars, melted>>

InsertLeaf(leaf) ==
    /\ nops < MaxOps
    /\ RedbInsertLeaf(leaf)
    /\ SqliteInsertLeaf(leaf)
    /\ last' = Call("insert_leaf", leaf, LeafHash(leaf), 0, RedbRet,
                    SqliteInsertLeafRet(leaf))
    /\ nops' = nops + 1
    /\ engine' = "up"
    /\ UNCHANGED <<wrap_vars, cfg_vars, melted>>

InsertBranch(branch) ==
    /\ nops < MaxOps
    /\ RedbInsertBranch(branch)
    /\ SqliteInsertBranch(branch)
    /\ last' = Call("insert_branch", branch, branch.hash, 0, RedbRet,
                    SqliteInsertBranchRet(branch))
    /\ nops' = nops + 1
    /\ engine' = "up"
    /\ UNCHANGED <<wrap_vars, cfg_vars, melted>>

InsertCompactLeaf(compact) ==
    /\ nops < MaxOps
    /\ RedbInsertCompactLeaf(compact)
    /\ SqliteInsertCompactLeaf(compact)
    /\ last' = Call("insert_compact_leaf", compact, compact.hash, 0, RedbRet,
                    SqliteInsertCompactLeafRet(compact))
    /\ nops' = nops + 1
    /\ engine' = "up"
    /\ UNCHANGED <<wrap_vars, cfg_vars, melted>>

UpdateRoot(root) ==
    /\ nops < MaxOps
    /\ RedbUpdateRoot(root)
    /\ SqliteUpdateRoot(root)
    /\ last' = Call("update_root", root, root.hash, 0, RedbRet, Ok)
    /\ nops' = nops + 1
    /\ engine' = "up"
    /\ UNCHANGED <<wrap_vars, cfg_vars, melted>>

DeleteBranch(key) ==
    /\ nops < MaxOps
    /\ RedbDeleteBranch(key)
    /\ SqliteDeleteBranch(key)
    /\ last' = Call("delete_branch", key, key, 0, RedbRet, Ok)
    /\ nops' = nops + 1
    /\ engine' = "up"
    /\ UNCHANGED <<wrap_vars, cfg_vars, melted>>

DeleteLeaf(key) ==
    /\ nops < MaxOps
    /\ RedbDeleteLeaf(key)
    /\ SqliteDeleteLeaf(key)
    /\ last' = Call("delete_leaf", key, key, 0, RedbRet, Ok)
    /\ nops' = nops + 1
    /\ engine' = "up"
    /\ UNCHANGED <<wrap_vars, cfg_vars, melted>>

DeleteCompactLeaf(key) ==
    /\ nops < MaxOps
    /\ RedbDeleteCompactLeaf(key)
    /\ SqliteDeleteCompactLeaf(key)
    /\ last' = Call("delete_compact_leaf", key, key, 0, RedbRet, Ok)
    /\ nops' = nops + 1
    /\ engine' = "up"
    /\ UNCHANGED <<wrap_vars, cfg_vars, melted>>

Next ==
    \/ \E ns \in Namespaces : SetNamespace(ns)
    \/ GetRoot
    \/ \E height \in Heights, key \in QueryHashes : GetChildren(height, key)
    \/ \E key \in DeleteHashes : GetLeaf(key)
    \/ \E leaf \in LeafInputs : InsertLeaf(leaf)
    \/ \E branch \in BranchInputs : InsertBranch(branch)
    \/ \E compact \in CompactInputs : InsertCompactLeaf(compact)
    \/ \E root \in BranchInputs : UpdateRoot(root)
    \/ \E key \in DeleteHashes : DeleteBranch(key)
    \/ \E key \in DeleteHashes : DeleteLeaf(key)
    \/ \E key \in DeleteHashes : DeleteCompactLeaf(key)

Spec == Init /\ [][Next]_vars

\* ------------------------------------------------------------ a rooted store

\* the branch over the leaf L1 and an empty right subtree
B1 == [hash |-> H1, left |-> LeafHash(L1), right |-> EmptyHash(1), sum |-> 1]

\* the stores after insert_leaf(L1), insert_branch(B1), update_root(B1) on
\* new stores
RootedStores ==
    /\ redb_branches = TableInsert(<<>>, RedKey(NS_DEFAULT, B1.hash),
                                   serialize_branch(B1))
    /\ redb_leaves = TableInsert(<<>>, RedKey(NS_DEFAULT, LeafHash(L1)),
                                 serialize_leaf(L1))
    /\ redb_compact = <<>>
    /\ redb_roots = TableInsert(<<>>, NS_DEFAULT, B1.hash)
    /\ redb_ns = NS_DEFAULT
    /\ sql_nodes = {SqlRow(LeafHash(L1), NULL, NULL, NULL, L1.value,
                           AsI64(L1.sum), NS_DEFAULT),
                    SqlRow(B1.hash, B1.left, B1.right, NULL, NULL,
                           AsI64(B1.sum), NS_DEFAULT)}
    /\ sql_roots = {[root_hash |-> B1.hash, namespace |-> NS_DEFAULT]}
    /\ sql_ns = NS_DEFAULT

\* the rooted stores, right after the update_root(B1) that rooted them
InitRooted ==
    /\ RootedStores
    /\ last = [op |-> "update_root", ns |-> NS_DEFAULT, arg |-> B1,
               key |-> B1.hash, height |-> 0, redb |-> Ok, sqlite |-> Ok,
               repeat |-> FALSE,
               pre |-> [branch |-> TRUE, leaf |-> FALSE, compact |-> FALSE,
                        row |-> TRUE]]
    /\ nops = 0
    /\ Aside

\* any sequence of contract calls on the rooted stores
SpecRooted == InitRooted /\ [][Next]_vars

\* ------------------------------------------------------------ one hash, three tables

\* a branch and a compact leaf handed to the insert calls with the hash of
\* the leaf L1
PB == [hash |-> LeafHash(L1), left |-> EmptyHash(1), right |-> EmptyHash(1),
       sum |-> 0]
PC == [hash |-> LeafHash(L1), key |-> Hash(9), leaf |-> L2]

\* the stores after insert_leaf(L1), insert_branch(PB),
\* insert_compact_leaf(PC), insert_branch(B1), update_root(B1) on new stores:
\* the key-value backend holds a record under the hash of L1 in each of its
\* three node tables, the relational backend kept the row of the leaf
ProbeStores ==
    /\ redb_branches =
          TableInsert(TableInsert(<<>>, RedKey(NS_DEFAULT, PB.hash),
                                  serialize_branch(PB)),
                      RedKey(NS_DEFAULT, B1.hash), serialize_branch(B1))
    /\ redb_leaves = TableInsert(<<>>, RedKey(NS_DEFAULT, LeafHash(L1)),
                                 serialize_leaf(L1))
    /\ redb_compact = TableInsert(<<>>, RedKey(NS_DEFAULT, PC.hash),
                                  serialize_compact_leaf(PC))
    /\ redb_roots = TableInsert(<<>>, NS_DEFAULT, B1.hash)
    /\ redb_ns = NS_DEFAULT
    /\ sql_nodes = {SqlRow(LeafHash(L1), NULL, NULL, NULL, L1.value,
                           AsI64(L1.sum), NS_DEFAULT),
                    SqlRow(B1.hash, B1.left, B1.right, NULL, NULL,
                           AsI64(B1.sum), NS_DEFAULT)}
    /\ sql_roots = {[root_hash |-> B1.hash, namespace |-> NS_DEFAULT]}
    /\ sql_ns = NS_DEFAULT

InitProbe ==
    /\ ProbeStores
    /\ last = [op |-> "update_root", ns |-> NS_DEFAULT, arg |-> B1,
               key |-> B1.hash, height |-> 0, redb |-> Ok, sqlite |-> Ok,
               repeat |-> FALSE,
               pre |-> [branch |-> TRUE, leaf |-> FALSE, compact |-> FALSE,
                        row |-> TRUE]]
    /\ nops = 0
    /\ Aside

\* any sequence of contract calls on these stores
SpecProbe == InitProbe /\ [][Next]_vars

\* ------------------------------------------------------------ equal children

\* a branch whose two children are the same leaf L1
BT == [hash |-> H2, left |-> LeafHash(L1), right |-> LeafHash(L1), sum |-> 2]

\* the stores after insert_leaf(L1), insert_branch(BT) on new stores
TwinStores ==
    /\ redb_branches = TableInsert(<<>>, RedKey(NS_DEFAULT, BT.hash),
                                   serialize_branch(BT))
    /\ redb_leaves = TableInsert(<<>>, RedKey(NS_DEFAULT, LeafHash(L1)),
                                 serialize_leaf(L1))
    /\ redb_compact = <<>>
    /\ redb_roots = <<>>
    /\ redb_ns = NS_DEFAULT
    /\ sql_nodes = {SqlRow(LeafHash(L1), NULL, NULL, NULL, L1.value,
                           AsI64(L1.sum), NS_DEFAULT),
                    SqlRow(BT.hash, BT.left, BT.right, NULL, NULL,
                           AsI64(BT.sum), NS_DEFAULT)}
    /\ sql_roots = {}
    /\ sql_ns = NS_DEFAULT

\* right after the insert_branch(BT)
InitTwin ==
    /\ TwinStores
    /\ last = [op |-> "insert_branch", ns |-> NS_DEFAULT, arg |-> BT,
               key |-> BT.hash, height |-> 0, redb |-> Ok, sqlite |-> Ok,
               repeat |-> FALSE,
               pre |-> [branch |-> FALSE, leaf |-> FALSE, compact |-> FALSE,
                        row |-> FALSE]]
    /\ nops = 0
    /\ Aside

\* any sequence of contract calls on these stores
SpecTwin == InitTwin /\ [][Next]_vars

\* ------------------------------------------------------------ large sums

\* leaves whose sum has the top bit set: 2^63 and u64::MAX in the code
LH == [value |-> <<5>>, sum |-> 2 ^ (SumBits - 1)]
LM == [value |-> <<6>>, sum |-> 2 ^ SumBits - 1]
SumLeaves == {LH, LM}

\* a branch over the leaf LM and a compact leaf holding LH
BS == [hash |-> H3, left |-> LeafHash(LM), right |-> EmptyHash(1),
       sum |-> LM.sum]
CS == [hash |-> H4, key |-> Hash(9), leaf |-> LH]

\* the contract calls, and the insert calls with these nodes
NextSums ==
    \/ Next
    \/ \E leaf \in SumLeaves : InsertLeaf(leaf)
    \/ InsertBranch(BS)
    \/ InsertCompactLeaf(CS)

SpecSums == Init /\ [][NextSums]_vars

\* ------------------------------------------------------------ a chain of branches

\* a chain of branches: B2 over BH1 over BH3 over the leaf L1
BH3 == [hash |-> H3, left |-> LeafHash(L1), right |-> EmptyHash(1), sum |-> 1]
BH1 == [hash |-> H1, left |-> H3, right |-> LeafHash(L2), sum |-> 2]
B2 == [hash |-> H2, left |-> H1, right |-> H4, sum |-> 2]

\* the stores after insert_leaf(L1), insert_branch(BH3), insert_branch(BH1),
\* insert_branch(B2) on new stores: the leaf is three links below B2
ChainStores ==
    /\ redb_branches =
          TableInsert(
             TableInsert(
                TableInsert(<<>>, RedKey(NS_DEFAULT, BH3.hash),
                            serialize_branch(BH3)),
                RedKey(NS_DEFAULT, BH1.hash), serialize_branch(BH1)),
             RedKey(NS_DEFAULT, B2.hash), serialize_branch(B2))
    /\ redb_leaves = TableInsert(<<>>, RedKey(NS_DEFAULT, LeafHash(L1)),
                                 serialize_leaf(L1))
    /\ redb_compact = <<>>
    /\ redb_roots = <<>>
    /\ redb_ns = NS_DEFAULT
    /\ sql_nodes =
          {SqlRow(LeafHash(L1), NULL, NULL, NULL, L1.value, AsI64(L1.sum),
                  NS_DEFAULT)}
          \cup {SqlRow(b.hash, b.left, b.right, NULL, NULL, AsI64(b.sum),
                       NS_DEFAULT) : b \in {BH3, BH1, B2}}
    /\ sql_roots = {}
    /\ sql_ns = NS_DEFAULT

InitChain ==
    /\ ChainStores
    /\ last = [op |-> "insert_branch", ns |-> NS_DEFAULT, arg |-> B2,
               key |-> B2.hash, height |-> 0, redb |-> Ok, sqlite |-> Ok,
               repeat |-> FALSE,
               pre |-> [branch |-> FALSE, leaf |-> FALSE, compact |-> FALSE,
                        row |-> FALSE]]
    /\ nops = 0
    /\ Aside

\* any sequence of contract calls on these stores
SpecChain == InitChain /\ [][Next]_vars

\* ------------------------------------------------------------ schema creation

\* an open_table that starts the table anew
OpenTableFresh(table) == <<>>

\* write_txn.open_table(DEFINITION): the table with the records it holds; a
\* table the database does not have yet is created with no records, which
\* is how the model represents a missing table
OpenTable(table) == table

\* RedbStore::migrate: one write transaction that opens the four tables and
\* commits; the relational store is not called
Migrate ==
    /\ nops < MaxOps
    /\ redb_branches' = OpenTable(redb_branches)
    /\ redb_leaves' = OpenTable(redb_leaves)
    /\ redb_compact' = OpenTable(redb_compact)
    /\ redb_roots' = OpenTable(redb_roots)
    /\ UNCHANGED <<redb_ns, sql_vars>>
    /\ last' = Call("migrate", <<>>, <<>>, 0, RedbRet, Ok)
    /\ nops' = nops + 1
    /\ engine' = "up"
    /\ UNCHANGED <<wrap_vars, cfg_vars, melted>>

NextMigrate ==
    \/ Next
    \/ Migrate

\* any sequence of contract calls and migrate() calls on the rooted stores
SpecMigrate == InitRooted /\ [][NextMigrate]_vars

\* ------------------------------------------------------------ failing calls

\* where a mutating call of the key-value backend can fail: each `?` of
\* begin_write, open_table, table.insert / table.remove, and commit
FailSteps == {"begin_write", "open_table", "write", "commit"}

\* a transaction that publishes what it wrote although commit() failed
RedbTxnPartial(table, written, step) ==
    IF step \in {"none", "commit"} THEN written ELSE table

\* the table after a write transaction: what was written when every step
\* succeeded; a transaction left by `?` before or at commit() is dropped
RedbTxnResult(table, written, step) ==
    IF step = "none" THEN written ELSE table

\* the rows after one statement: a failed statement changes nothing
SqlStatementResult(rows, written, step) ==
    IF step = "none" THEN written ELSE rows

\* Err(TreeError::DbError(..)) returned from the failing step
DbError(step) == [tag |-> "Err", err |-> "DbError", at |-> step]

\* .expect(..) on the failed statement
Panic(step) == [tag |-> "Panic", at |-> step]

\* the mutating calls, each as the call with its argument and its hash
WriteCalls ==
    {[op |-> "insert_leaf", arg |-> l, key |-> LeafHash(l)] : l \in LeafInputs}
    \cup {[op |-> "insert_branch", arg |-> b, key |-> b.hash] :
             b \in BranchInputs}
    \cup {[op |-> "insert_compact_leaf", arg |-> c, key |-> c.hash] :
             c \in CompactInputs}
    \cup {[op |-> "update_root", arg |-> b, key |-> b.hash] : b \in BranchInputs}
    \cup {[op |-> o, arg |-> k, key |-> k] :
             o \in {"delete_branch", "delete_leaf", "delete_compact_leaf"},
             k \in DeleteHashes}

\* what the call writes into each table of the key-value backend inside its
\* transaction
RedbWritten(c) ==
    [branches |->
        IF c.op = "insert_branch"
        THEN TableInsert(redb_branches, RedKey(redb_ns, c.key),
                         serialize_branch(c.arg))
        ELSE IF c.op = "delete_branch"
        THEN TableRemove(redb_branches, RedKey(redb_ns, c.key))
        ELSE redb_branches,
     leaves |->
        IF c.op = "insert_leaf"
        THEN TableInsert(redb_leaves, RedKey(redb_ns, c.key),
                         serialize_leaf(c.arg))
        ELSE IF c.op = "delete_leaf"
        THEN TableRemove(redb_leaves, RedKey(redb_ns, c.key))
        ELSE redb_leaves,
     compact |->
        IF c.op = "insert_compact_leaf"
        THEN TableInsert(redb_compact, RedKey(redb_ns, c.key),
                         serialize_compact_leaf(c.arg))
        ELSE IF c.op = "delete_compact_leaf"
        THEN TableRemove(redb_compact, RedKey(redb_ns, c.key))
        ELSE redb_compact,
     roots |->
        IF c.op = "update_root"
        THEN TableInsert(redb_roots, redb_ns, c.key)
        ELSE redb_roots]

\* a mutating call during which the storage engine fails at the step: the
\* key-value backend leaves its transaction by `?`, the relational backend
\* panics in .expect(..) on the failed statement
FailedCall(c, step) ==
    /\ nops < MaxOps
    /\ redb_branches' =
          RedbTxnResult(redb_branches, RedbWritten(c).branches, step)
    /\ redb_leaves' = RedbTxnResult(redb_leaves, RedbWritten(c).leaves, step)
    /\ redb_compact' = RedbTxnResult(redb_compact, RedbWritten(c).compact, step)
    /\ redb_roots' = RedbTxnResult(redb_roots, RedbWritten(c).roots, step)
    /\ sql_nodes' = SqlStatementResult(sql_nodes, sql_nodes, step)
    /\ sql_roots' = SqlStatementResult(sql_roots, sql_roots, step)
    /\ UNCHANGED <<redb_ns, sql_ns>>
    /\ last' = Call(c.op, c.arg, c.key, 0, DbError(step), Panic(step))
    /\ nops' = nops + 1
    /\ engine' = "failing"
    /\ UNCHANGED <<wrap_vars, cfg_vars, melted>>

NextFail ==
    \/ Next
    \/ \E c \in WriteCalls, step \in FailSteps : FailedCall(c, step)

\* any sequence of contract calls, some of which meet a failing engine
SpecFail == Init /\ [][NextFail]_vars

\* ------------------------------------------------------------ failing reads

\* where a read of the key-value backend can fail: begin_read, open_table
\* and table.get; the relational backend fails in its one query
ReadFailSteps == {"begin_read", "open_table", "get"}

\* `.ok()?` on each step of a read: a failed step makes the reader return
\* None
OkOrNone(step, value) == IF step = "none" THEN value ELSE None

\* get_root_node: begin_read().ok()?, open_table(ROOTS_TABLE).ok()?,
\* table.get(key).ok()??
RedbGetRootNodeAt(ns, step) == OkOrNone(step, RedbGetRootNode(ns))

\* the get_node closure of get_children when get_branch, get_leaf and
\* get_compact_leaf run on the engine
RedbGetNodeAt(ns, height, key, step) ==
    IF key = EmptyHash(height) THEN EmptyNode(height)
    ELSE CHOOSE r \in
            {FirstFound(OkOrNone(step, node), OkOrNone(step, leaf),
                        OkOrNone(step, compact), EmptyNode(height)) :
                node \in {RedbGetBranch(ns, key)},
                leaf \in {RedbGetLeaf(ns, key)},
                compact \in {RedbGetCompactLeaf(ns, key)}} : TRUE

RedbGetChildrenAt(ns, height, key, step) ==
    CHOOSE r \in {RedbChildrenOf(ns, height, key, node) :
                     node \in {RedbGetNodeAt(ns, height, key, step)}} : TRUE

\* get_root_node of the relational backend: fetch_optional(..) .ok()?
SqliteGetRootNodeAt(ns, step) == OkOrNone(step, SqliteGetRootNode(ns))

\* get_children of the relational backend: fetch_all(..).unwrap_or_default()
\* gives no rows, and no rows give the two empty children
SqliteGetChildrenAt(ns, height, key, step) ==
    IF step = "none" THEN SqliteGetChildren(ns, height, key)
    ELSE SqlEmptyChildren(height)

\* get_root during which the storage engine fails at the step
FailedGetRoot(step) ==
    /\ nops < MaxOps
    /\ last' = Call("get_root", <<>>, <<>>, 0,
                    RedbGetRootNodeAt(redb_ns, step),
                    SqliteGetRootNodeAt(sql_ns, step))
    /\ UNCHANGED <<redb_vars, sql_vars>>
    /\ nops' = nops + 1
    /\ engine' = "failing"
    /\ UNCHANGED <<wrap_vars, cfg_vars, melted>>

\* get_children during which the storage engine fails at the step; with the
\* empty hash of the height the closure returns before it reads the engine
FailedGetChildren(height, key, step) ==
    /\ nops < MaxOps
    /\ key # EmptyHash(height)
    /\ last' = Call("get_children", key, key, height,
                    RedbGetChildrenAt(redb_ns, height, key, step),
                    SqliteGetChildrenAt(sql_ns, height, key, step))
    /\ UNCHANGED <<redb_vars, sql_vars>>
    /\ nops' = nops + 1
    /\ engine' = "failing"
    /\ UNCHANGED <<wrap_vars, cfg_vars, melted>>

NextReadFail ==
    \/ NextFail
    \/ \E step \in ReadFailSteps : FailedGetRoot(step)
    \/ \E height \in Heights, key \in QueryHashes, step \in ReadFailSteps :
          FailedGetChildren(height, key, step)

\* any sequence of contract calls, reads and writes, some of which meet a
\* failing engine
SpecReadFail == Init /\ [][NextReadFail]_vars

\* ------------------------------------------------------------ damaged records

\* a stored byte string that lost its last byte
Truncated(bytes) == SubSeq(bytes, 1, Len(bytes) - 1)

\* the file under the stores is damaged: the root record of the current
\* namespace keeps fewer bytes than a hash has, in both stores
CorruptRoot ==
    /\ redb_ns \in DOMAIN redb_roots
    /\ Len(redb_roots[redb_ns]) = HASH_LEN
    /\ redb_roots' = [redb_roots EXCEPT ![redb_ns] = Truncated(@)]
    /\ sql_roots' =
          {IF row.namespace = sql_ns
           THEN [row EXCEPT !.root_hash = Truncated(@)] ELSE row :
              row \in sql_roots}
    /\ UNCHANGED <<redb_branches, redb_leaves, redb_compact, redb_ns,
                   sql_nodes, sql_ns, last, nops, engine>>
    /\ UNCHANGED <<wrap_vars, cfg_vars, melted>>

NextCorrupt ==
    \/ Next
    \/ CorruptRoot

\* any sequence of contract calls on rooted stores whose root record may get
\* damaged
SpecCorrupt == InitRooted /\ [][NextCorrupt]_vars

\* ============================================================ the shared wrapper

\* the calls made through the wrapper, one of each contract operation
WrapCalls ==
    { [op |-> "set_namespace", arg |-> NS_D, key |-> <<>>, height |-> 0],
      [op |-> "get_root", arg |-> <<>>, key |-> <<>>, height |-> 0],
      [op |-> "get_children", arg |-> H1, key |-> H1, height |-> 0],
      [op |-> "get_leaf", arg |-> LeafHash(L1), key |-> LeafHash(L1),
       height |-> 0],
      [op |-> "insert_leaf", arg |-> L1, key |-> LeafHash(L1), height |-> 0],
      [op |-> "insert_branch", arg |-> B1, key |-> B1.hash, height |-> 0],
      [op |-> "insert_compact_leaf",
       arg |-> [hash |-> H4, key |-> Hash(9), leaf |-> L1],
       key |-> H4, height |-> 0],
      [op |-> "update_root", arg |-> B1, key |-> B1.hash, height |-> 0],
      [op |-> "delete_branch", arg |-> H1, key |-> H1, height |-> 0],
      [op |-> "delete_leaf", arg |-> LeafHash(L1), key |-> LeafHash(L1),
       height |-> 0],
      [op |-> "delete_compact_leaf", arg |-> H4, key |-> H4, height |-> 0] }

\* a lock that is granted whoever holds the Mutex
CanLockAlways(c) == TRUE

\* blocking_lock() returns once the Mutex is free
CanLock(c) == guard = "free"

\* a guard that outlives the call
GuardKept(c) == c

\* the MutexGuard is a temporary of the call expression: dropped when the
\* closure returns
GuardDropped(c) == "free"

\* a wrapper that throws the inner result away
InnerRetDropped(call) == Ok

\* what the method of the wrapped store returns
InnerRet(call) ==
    CASE call.op = "get_root" -> RedbGetRootNode(redb_ns)
      [] call.op = "get_children" ->
            RedbGetChildren(redb_ns, call.height, call.key)
      [] call.op = "get_leaf" -> RedbGetLeaf(redb_ns, call.key)
      [] OTHER -> RedbRet

\* the method of the wrapped store each wrapper method calls
InnerCall(call) ==
    \/ call.op = "set_namespace" /\ RedbSetNamespace(call.arg)
    \/ call.op \in {"get_root", "get_children", "get_leaf"}
       /\ UNCHANGED redb_vars
    \/ call.op = "insert_leaf" /\ RedbInsertLeaf(call.arg)
    \/ call.op = "insert_branch" /\ RedbInsertBranch(call.arg)
    \/ call.op = "insert_compact_leaf" /\ RedbInsertCompactLeaf(call.arg)
    \/ call.op = "update_root" /\ RedbUpdateRoot(call.arg)
    \/ call.op = "delete_branch" /\ RedbDeleteBranch(call.key)
    \/ call.op = "delete_leaf" /\ RedbDeleteLeaf(call.key)
    \/ call.op = "delete_compact_leaf" /\ RedbDeleteCompactLeaf(call.key)

\* a clone enters a wrapper method: block_in_place(|| self.0.blocking_lock()..
Invoke(c, call) ==
    /\ nops < MaxCalls
    /\ pc[c] = "idle"
    /\ pc' = [pc EXCEPT ![c] = "lock"]
    /\ req' = [req EXCEPT ![c] = [op |-> call.op, arg |-> call.arg,
                                  key |-> call.key, height |-> call.height,
                                  ret |-> Ok]]
    /\ nops' = nops + 1
    /\ UNCHANGED <<redb_vars, sql_vars, last, guard, own_ns>>
    /\ UNCHANGED <<engine, cfg_vars, melted>>

\* self.0.blocking_lock() returns the guard
Acquire(c) ==
    /\ pc[c] = "lock"
    /\ CanLock(c)
    /\ guard' = c
    /\ pc' = [pc EXCEPT ![c] = "run"]
    /\ UNCHANGED <<redb_vars, sql_vars, last, nops, req, own_ns>>
    /\ UNCHANGED <<engine, cfg_vars, melted>>

\* the method of the wrapped store runs under the guard
Execute(c) ==
    /\ pc[c] = "run"
    /\ InnerCall(req[c])
    /\ req' = [req EXCEPT ![c].ret = InnerRet(req[c])]
    /\ own_ns' = IF req[c].op = "set_namespace"
                     THEN [own_ns EXCEPT ![c] = req[c].arg]
                     ELSE own_ns
    /\ pc' = [pc EXCEPT ![c] = "unlock"]
    /\ UNCHANGED <<sql_vars, last, nops, guard>>
    /\ UNCHANGED <<engine, cfg_vars, melted>>

\* the closure returns: the guard is dropped and the result handed back
Release(c) ==
    /\ pc[c] = "unlock"
    /\ guard' = GuardDropped(c)
    /\ pc' = [pc EXCEPT ![c] = "idle"]
    /\ UNCHANGED <<redb_vars, sql_vars, last, nops, req, own_ns>>
    /\ UNCHANGED <<engine, cfg_vars, melted>>

NextWrap ==
    \/ \E c \in Clones, call \in WrapCalls : Invoke(c, call)
    \/ \E c \in Clones : Acquire(c)
    \/ \E c \in Clones : Execute(c)
    \/ \E c \in Clones : Release(c)

\* clones of one ArcTreeStore over a new key-value store, called concurrently
SpecWrap == Init /\ [][NextWrap]_vars

\* a thread inside a call keeps running; the tokio Mutex grants the lock in
\* the order of the requests, so a waiting clone is not passed over forever
FairWrap ==
    \A c \in Clones :
        /\ SF_vars(Acquire(c))
        /\ WF_vars(Execute(c))
        /\ WF_vars(Release(c))

SpecWrapFair == SpecWrap /\ FairWrap

\* RedbStore::new, ArcTreeStore::new, a clone() of the wrapper, and
\* set_namespace("default") called through the first owner and returned
InitNamespaced ==
    /\ redb_branches = <<>>
    /\ redb_leaves = <<>>
    /\ redb_compact = <<>>
    /\ redb_roots = <<>>
    /\ redb_ns = NS_DEFAULT
    /\ sql_nodes = {}
    /\ sql_roots = {}
    /\ sql_ns = NS_DEFAULT
    /\ last = [op |-> "new", ns |-> NS_DEFAULT, arg |-> <<>>, key |-> <<>>,
               height |-> 0, redb |-> Ok, sqlite |-> Ok, repeat |-> FALSE,
               pre |-> [branch |-> FALSE, leaf |-> FALSE, compact |-> FALSE,
                        row |-> FALSE]]
    /\ nops = 0
    /\ guard = "free"
    /\ pc = [c \in Clones |-> "idle"]
    /\ req = [c \in Clones |->
                IF c = "c1"
                   THEN [op |-> "set_namespace", arg |-> NS_DEFAULT,
                         key |-> <<>>, height |-> 0, ret |-> Ok]
                   ELSE NoCall]
    /\ own_ns = [c \in Clones |->
                   IF c = "c1" THEN NS_DEFAULT ELSE NoNamespace]
    /\ engine = "up"
    /\ ConfigNew
    /\ melted = NoMelted

\* two owners of one ArcTreeStore, the first having set its namespace
SpecNamespaced == InitNamespaced /\ [][NextWrap]_vars

\* ============================================================ the mint configuration

\* the setter calls: set_quote_ttl, set_mint_info, set_keysets
Setters ==
    { [field |-> "quote_ttl", value |-> "ttl1"],
      [field |-> "quote_ttl", value |-> "ttl2"],
      [field |-> "mint_info", value |-> "m1"],
      [field |-> "keysets", value |-> "k1"] }

\* a setter that builds its Config from the one of new() instead of cloning
\* the other two fields of current_inner
NewInnerReset(current_inner, field, value) ==
    [Config0 EXCEPT ![field] = value]

\* Config { .. } of a setter: the given field from the argument, the other
\* two cloned from current_inner
NewInner(current_inner, field, value) ==
    [keysets |-> IF field = "keysets" THEN value ELSE current_inner.keysets,
     mint_info |->
        IF field = "mint_info" THEN value ELSE current_inner.mint_info,
     quote_ttl |->
        IF field = "quote_ttl" THEN value ELSE current_inner.quote_ttl]

\* a store that writes the new value over the current allocation
StoreInPlace(heap, cur, new_inner) ==
    [heap |-> [heap EXCEPT ![cur] = new_inner], cur |-> cur]

\* self.config.store(Arc::new(new_inner)): a new allocation, then the pointer
\* is swapped to it
StoreSwap(heap, cur, new_inner) ==
    [heap |-> Append(heap, new_inner), cur |-> Len(heap) + 1]

\* the setters that have loaded and not yet stored
InSetter == {t \in Threads : cfg_pc[t] = "loaded"}

\* load(): self.config.load().clone(), an Arc to the current Config
Load(t) ==
    /\ cfg_pc[t] = "idle"
    /\ cfg_held[t].ptr # cfg_cur
    /\ cfg_held' = [cfg_held EXCEPT
                       ![t] = [ptr |-> cfg_cur, seen |-> cfg_heap[cfg_cur]]]
    /\ UNCHANGED <<cfg_heap, cfg_cur, cfg_pc, cfg_new>>
    /\ UNCHANGED <<redb_vars, sql_vars, last, nops, wrap_vars, engine, melted>>

\* a setter, first statement: let current_inner = self.load()
SetLoad(t, set) ==
    /\ cfg_pc[t] = "idle"
    /\ Len(cfg_heap) + Cardinality(InSetter) < MaxSnapshots
    /\ cfg_new' = [cfg_new EXCEPT
                      ![t] = [field |-> set.field, value |-> set.value,
                              current |-> cfg_cur]]
    /\ cfg_pc' = [cfg_pc EXCEPT ![t] = "loaded"]
    /\ UNCHANGED <<cfg_heap, cfg_cur, cfg_held>>
    /\ UNCHANGED <<redb_vars, sql_vars, last, nops, wrap_vars, engine, melted>>

\* a setter, the rest: build new_inner and store it
SetStore(t) ==
    /\ cfg_pc[t] = "loaded"
    /\ \E st \in {StoreSwap(cfg_heap, cfg_cur,
                            NewInner(cfg_heap[cfg_new[t].current],
                                     cfg_new[t].field, cfg_new[t].value))} :
          /\ cfg_heap' = st.heap
          /\ cfg_cur' = st.cur
    /\ cfg_pc' = [cfg_pc EXCEPT ![t] = "idle"]
    /\ cfg_new' = [cfg_new EXCEPT ![t] = NoSet]
    /\ UNCHANGED cfg_held
    /\ UNCHANGED <<redb_vars, sql_vars, last, nops, wrap_vars, engine, melted>>

NextConfig ==
    \/ \E t \in Threads : Load(t)
    \/ \E t \in Threads, set \in Setters : SetLoad(t, set)
    \/ \E t \in Threads : SetStore(t)

\* two threads loading and setting one SwappableConfig concurrently
SpecConfig == Init /\ [][NextConfig]_vars

\* ============================================================ Melted

\* Amount is a u64: the values it can hold
AmountMax == 2 ^ AMOUNT_BITS - 1
Amounts == 0..AmountMax

\* the amounts of single proofs: powers of two
ProofAmounts == {2 ^ k : k \in 0..(AMOUNT_BITS - 1)}

\* Proofs: up to two proofs, each reduced to its amount
ProofsInputs ==
    {<<>>} \cup {<<a>> : a \in ProofAmounts}
    \cup {<<a, b>> : a \in ProofAmounts, b \in ProofAmounts}

\* Option<Proofs>
NoChange == <<-1>>
ChangeInputs == {NoChange} \cup ProofsInputs

RECURSIVE SumOf(_)
SumOf(proofs) ==
    IF proofs = <<>> THEN 0 ELSE proofs[1] + SumOf(Tail(proofs))

\* proofs.total_amount(): the sum of the amounts, an error when it does not
\* fit an Amount
TotalAmount(proofs) ==
    IF SumOf(proofs) > AmountMax THEN Err("AmountOverflow")
    ELSE [tag |-> "Ok", amount |-> SumOf(proofs)]

\* amount + change_amount on Amount: the sum when it fits; when it does not,
\* what an addition of u64 can do: panic, or wrap around
AmountAdd(a, b) ==
    IF a + b <= AmountMax THEN {[tag |-> "Ok", amount |-> a + b]}
    ELSE {[tag |-> "Panic"], [tag |-> "Ok", amount |-> (a + b) % (AmountMax + 1)]}

\* proofs_amount.checked_sub(rhs).ok_or(Error::AmountOverflow)
CheckedSub(a, b) ==
    IF a >= b THEN [tag |-> "Ok", amount |-> a - b]
    ELSE Err("AmountOverflow")

\* Melted::total_amount: self.amount + self.fee_paid
MeltedTotalAmount(m) == AmountAdd(m.amount, m.fee_paid)

\* Melted::from_proofs once the three amounts are known
FromAmounts(amount, proofs_amount, change_amount) ==
    {IF sum.tag # "Ok" THEN sum
     ELSE IF CheckedSub(proofs_amount, sum.amount).tag # "Ok"
     THEN CheckedSub(proofs_amount, sum.amount)
     ELSE [tag |-> "Ok", amount |-> amount,
           fee_paid |-> CheckedSub(proofs_amount, sum.amount).amount] :
        sum \in AmountAdd(amount, change_amount)}

\* Melted::from_proofs(state, preimage, amount, proofs, change_proofs): the
\* results it can give
MeltedFromProofs(amount, proofs, change) ==
    IF TotalAmount(proofs).tag # "Ok" THEN {TotalAmount(proofs)}
    ELSE IF change = NoChange
    THEN FromAmounts(amount, TotalAmount(proofs).amount, 0)
    ELSE IF TotalAmount(change).tag # "Ok" THEN {TotalAmount(change)}
    ELSE FromAmounts(amount, TotalAmount(proofs).amount,
                     TotalAmount(change).amount)

\* one call of Melted::from_proofs
FromProofs(amount, proofs, change) ==
    /\ ~melted.called
    /\ \E out \in MeltedFromProofs(amount, proofs, change) :
          melted' = [called |-> TRUE, amount |-> amount, proofs |-> proofs,
                     change |-> change, out |-> out]
    /\ UNCHANGED <<redb_vars, sql_vars, last, nops, wrap_vars, engine, cfg_vars>>

NextMelted ==
    \E amount \in Amounts, proofs \in ProofsInputs, change \in ChangeInputs :
        FromProofs(amount, proofs, change)

\* Melted::from_proofs called on any arguments
SpecMelted == Init /\ [][NextMelted]_vars

\* ============================================================ properties

MutatingOps ==
    {"insert_leaf", "insert_branch", "insert_compact_leaf", "update_root",
     "delete_branch", "delete_leaf", "delete_compact_leaf"}

IsErr(ret, e) == ret.tag = "Err" /\ ret.err = e

\* a node is stored under the hash in the namespace
RedbStored(ns, key) ==
    \/ RedKey(ns, key) \in DOMAIN redb_branches
    \/ RedKey(ns, key) \in DOMAIN redb_leaves
    \/ RedKey(ns, key) \in DOMAIN redb_compact
SqlStored(ns, key) == SqlNodeRows(ns, key) # {}

\* what a caller can read under a namespace: get_root() and every
\* get_children(height, hash)
RedbObserve(ns) ==
    [root |-> RedbGetRootNode(ns),
     children |-> [h \in Heights, k \in QueryHashes |->
                      RedbGetChildren(ns, h, k)]]
SqliteObserve(ns) ==
    [root |-> SqliteGetRootNode(ns),
     children |-> [h \in Heights, k \in QueryHashes |->
                      SqliteGetChildren(ns, h, k)]]

\* C1: a call made while the handle's namespace is A leaves get_root() and
\* every get_children(height, hash) of every other namespace B unchanged, in
\* both backends, also when one name is a prefix of the other.
C1_NamespaceIsolation ==
    [][last'.op \in MutatingOps =>
          \A b \in Namespaces :
             b # redb_ns =>
                /\ RedbObserve(b)' = RedbObserve(b)
                /\ SqliteObserve(b)' = SqliteObserve(b)]_vars

\* a branch was inserted under "d" at a hash under which "default" holds a
\* branch
C1_Witness ==
    /\ last.op = "insert_branch"
    /\ last.ns = NS_D
    /\ RedbGetBranch(NS_DEFAULT, last.key).kind = "Branch"
    /\ SqliteGetBranch(NS_DEFAULT, last.key).kind = "Branch"

\* C2: get_children(height, hash) fails with NodeNotFound when hash is not
\* the empty hash of that depth and no node is stored under it in the current
\* namespace, in both backends.
C2_NodeNotFound ==
    (/\ last.op = "get_children"
     /\ last.key # EmptyHash(last.height)
     /\ ~RedbStored(redb_ns, last.key)
     /\ ~SqlStored(sql_ns, last.key))
    => /\ IsErr(last.redb, "NodeNotFound")
       /\ IsErr(last.sqlite, "NodeNotFound")

\* C3: get_children(height, hash) fails with ExpectedBranch when the node
\* stored under hash in the current namespace is a leaf or a compact leaf
\* and not a branch, in both backends.
C3_ExpectedBranch ==
    (/\ last.op = "get_children"
     /\ last.pre.leaf \/ last.pre.compact
     /\ ~last.pre.branch
     /\ \E row \in SqlNodeRows(sql_ns, last.key) :
            row.l_hash_key = NULL /\ row.r_hash_key = NULL)
    => /\ IsErr(last.redb, "ExpectedBranch")
       /\ IsErr(last.sqlite, "ExpectedBranch")

\* the stored branch under the hash records a child hash that is not an
\* empty hash and under which nothing is stored
RedbMissingLeft(ns, key) ==
    /\ RedKey(ns, key) \in DOMAIN redb_branches
    /\ LET rec == deserialize_branch(redb_branches[RedKey(ns, key)])
       IN /\ \A h \in 0..(TREE_SIZE - 1) : rec.left # EmptyHash(h)
          /\ ~RedbStored(ns, rec.left)
SqlMissingLeft(ns, key) ==
    \E row \in SqlNodeRows(ns, key) :
        /\ row.l_hash_key # NULL
        /\ \A h \in 0..(TREE_SIZE - 1) : row.l_hash_key # EmptyHash(h)
        /\ ~SqlStored(ns, row.l_hash_key)

\* C4: get_children on a stored branch whose recorded left child is missing
\* from the namespace does not answer with the empty node in its place.
C4_MissingChildSurfaced ==
    (last.op = "get_children")
    => /\ RedbMissingLeft(redb_ns, last.key) =>
            ~(last.redb.tag = "Ok" /\ last.redb.left.kind = "Empty")
       /\ SqlMissingLeft(sql_ns, last.key) =>
            ~(last.sqlite.tag = "Ok" /\ last.sqlite.left.kind = "Empty")

\* C5 as stated: get_children(height, empty hash of depth height + 1)
\* returns two empty nodes of depth height + 2.
C5_Original ==
    (/\ last.op = "get_children"
     /\ last.key = EmptyHash(last.height + 1)
     /\ ~RedbStored(redb_ns, last.key)
     /\ ~SqlStored(sql_ns, last.key))
    => /\ last.redb = Children(EmptyNode(last.height + 2),
                               EmptyNode(last.height + 2))
       /\ last.sqlite = Children(EmptyNode(last.height + 2),
                                 EmptyNode(last.height + 2))

\* C5: get_children(height, empty hash of depth height), for a height above
\* the leaf depth and with nothing stored under that hash in the current
\* namespace, returns two empty nodes of depth height + 1, in both backends.
C5_EmptySubtreeDefault ==
    (/\ last.op = "get_children"
     /\ last.height < TREE_SIZE - 1
     /\ last.key = EmptyHash(last.height)
     /\ ~RedbStored(redb_ns, last.key)
     /\ ~SqlStored(sql_ns, last.key))
    => /\ last.redb = Children(EmptyNode(last.height + 1),
                               EmptyNode(last.height + 1))
       /\ last.sqlite = Children(EmptyNode(last.height + 1),
                                 EmptyNode(last.height + 1))

\* the empty hash of depth 1 was asked for at height 1 in a namespace that
\* holds a branch and a leaf
C5_Witness ==
    /\ last.op = "get_children"
    /\ last.height = 1
    /\ last.key = EmptyHash(1)
    /\ RedbStored(redb_ns, H1) /\ SqlStored(sql_ns, H1)
    /\ RedbStored(redb_ns, LeafHash(L1)) /\ SqlStored(sql_ns, LeafHash(L1))

\* C6: an insert_leaf of a leaf that is already stored in the current
\* namespace succeeds, and leaves every table, get_leaf of that leaf and
\* every get_root/get_children result of the namespace as they were, in both
\* backends.
C6_IdempotentLeafInsert ==
    [][last'.op = "insert_leaf" => \A k \in {last'.key} :
          /\ last'.redb = Ok
          /\ last'.sqlite = Ok
          /\ last'.pre.leaf =>
                /\ UNCHANGED redb_vars
                /\ RedbGetLeaf(redb_ns, k)' = RedbGetLeaf(redb_ns, k)
                /\ RedbGetLeaf(redb_ns, k)'.kind = "Leaf"
                /\ RedbObserve(redb_ns)' = RedbObserve(redb_ns)
          /\ last'.pre.row =>
                /\ UNCHANGED sql_vars
                /\ SqliteGetLeaf(sql_ns, k)' = SqliteGetLeaf(sql_ns, k)
                /\ SqliteGetLeaf(sql_ns, k)'.kind = "Leaf"
                /\ SqliteObserve(sql_ns)' = SqliteObserve(sql_ns)]_vars

\* the same leaf was inserted twice in a row under one namespace and is
\* stored in both backends
C6_Witness ==
    /\ last.op = "insert_leaf"
    /\ last.repeat
    /\ last.pre.leaf
    /\ last.pre.row
    /\ RedbGetLeaf(redb_ns, last.key).kind = "Leaf"
    /\ SqliteGetLeaf(sql_ns, last.key).kind = "Leaf"

\* C7 as stated: an insert_branch or insert_compact_leaf at a hash already
\* stored in the current namespace returns a conflict error to the caller
\* and leaves the stored record unchanged, in both backends.
C7_DuplicateInsertConflict ==
    [][/\ (/\ last'.op = "insert_branch"
           /\ last'.pre.branch
           /\ last'.pre.row) =>
             /\ IsErr(last'.redb, "Conflict")
             /\ IsErr(last'.sqlite, "Conflict")
             /\ UNCHANGED <<redb_branches, sql_nodes>>
       /\ (/\ last'.op = "insert_compact_leaf"
           /\ last'.pre.compact
           /\ last'.pre.row) =>
             /\ IsErr(last'.redb, "Conflict")
             /\ IsErr(last'.sqlite, "Conflict")
             /\ UNCHANGED <<redb_compact, sql_nodes>>]_vars

DeleteOps == {"delete_branch", "delete_leaf", "delete_compact_leaf"}

\* C8: a delete_branch, delete_leaf or delete_compact_leaf of a hash under
\* which the current namespace stores nothing succeeds and leaves every
\* table unchanged; after any delete the node of that kind is not found
\* under the hash in the current namespace, in both backends.
C8_Delete ==
    [][last'.op \in DeleteOps => \A k \in {last'.key} :
          /\ last'.redb = Ok
          /\ last'.sqlite = Ok
          /\ ~(last'.pre.branch \/ last'.pre.leaf \/ last'.pre.compact) =>
                UNCHANGED redb_vars
          /\ ~last'.pre.row => UNCHANGED sql_vars
          /\ last'.op = "delete_branch" =>
                /\ RedbGetBranch(redb_ns, k)'.kind = "None"
                /\ SqliteGetBranch(sql_ns, k)'.kind = "None"
          /\ last'.op = "delete_leaf" =>
                /\ RedbGetLeaf(redb_ns, k)'.kind = "None"
                /\ SqliteGetLeaf(sql_ns, k)'.kind = "None"
          /\ last'.op = "delete_compact_leaf" =>
                /\ RedbGetCompactLeaf(redb_ns, k)'.kind = "None"
                /\ SqlNodeRows(sql_ns, k)' = {}
          /\ UNCHANGED <<redb_roots, sql_roots>>]_vars

\* a branch that was stored in both backends has just been deleted
C8_Witness ==
    /\ last.op = "delete_branch"
    /\ last.pre.branch
    /\ last.pre.row
    /\ RedbGetBranch(redb_ns, last.key).kind = "None"
    /\ SqliteGetBranch(sql_ns, last.key).kind = "None"

\* C9 as stated: after update_root(b) the root hash recorded for the current
\* namespace is b's hash, for every branch b and also for the empty-tree
\* root; one root is recorded for the namespace and the roots of the other
\* namespaces are unchanged, in both backends.
C9_UpdateRootUpsert ==
    [][last'.op = "update_root" =>
          /\ redb_ns \in DOMAIN redb_roots'
          /\ redb_roots'[redb_ns] = last'.key
          /\ \A b \in DOMAIN redb_roots \ {redb_ns} :
                b \in DOMAIN redb_roots' /\ redb_roots'[b] = redb_roots[b]
          /\ SqlRootRows(sql_ns)' =
                {[root_hash |-> last'.key, namespace |-> sql_ns]}
          /\ \A b \in Namespaces \ {sql_ns} :
                SqlRootRows(b)' = SqlRootRows(b)]_vars

\* C10 as stated: get_root() returns the branch whose hash update_root
\* recorded last in the current namespace, and returns nothing only when no
\* root is recorded for the namespace, in both backends.
C10_GetRoot ==
    (last.op = "get_root") =>
       /\ redb_ns \in DOMAIN redb_roots =>
             /\ last.redb.kind = "Branch"
             /\ last.redb.hash = redb_roots[redb_ns]
       /\ SqlRootRows(sql_ns) # {} =>
             /\ last.sqlite.kind = "Branch"
             /\ \E root \in SqlRootRows(sql_ns) :
                    last.sqlite.hash = root.root_hash

\* C11 as stated: the branch get_root() returns has a left child and a right
\* child whose hashes are the left and right child hashes of the branch's
\* stored record, in both backends.
C11_RootHashConsistent ==
    (last.op = "get_root") =>
       /\ last.redb.kind = "Branch" =>
             \A rec \in {deserialize_branch(
                            redb_branches[RedKey(redb_ns, last.redb.hash)])} :
                /\ last.redb.left.hash = rec.left
                /\ last.redb.right.hash = rec.right
       /\ last.sqlite.kind = "Branch" =>
             \A row \in SqlNodeRows(sql_ns, last.sqlite.hash) :
                /\ last.sqlite.left.hash = row.l_hash_key
                /\ last.sqlite.right.hash = row.r_hash_key

\* the hashes the calls of the model store nodes under or record as children
NodeHashes ==
    {b.hash : b \in BranchInputs} \cup {b.left : b \in BranchInputs}
    \cup {b.right : b \in BranchInputs} \cup {c.hash : c \in CompactInputs}
    \cup {LeafHash(l) : l \in LeafInputs}

IsEmptyHash(hash) == \E h \in 0..(TREE_SIZE - 1) : hash = EmptyHash(h)

\* the sum stored for the node under the hash, 0 for an empty subtree
RedbStoredSum(ns, hash) ==
    IF RedKey(ns, hash) \in DOMAIN redb_branches
    THEN deserialize_branch(redb_branches[RedKey(ns, hash)]).sum
    ELSE IF RedKey(ns, hash) \in DOMAIN redb_leaves
    THEN deserialize_leaf(redb_leaves[RedKey(ns, hash)]).sum
    ELSE IF RedKey(ns, hash) \in DOMAIN redb_compact
    THEN deserialize_compact_leaf(redb_compact[RedKey(ns, hash)]).sum
    ELSE 0
SqlStoredSum(ns, hash) ==
    IF SqlNodeRows(ns, hash) # {}
    THEN AsU64((CHOOSE row \in SqlNodeRows(ns, hash) : TRUE).sum)
    ELSE 0

\* every branch stored in the namespace has children that are stored or
\* empty, and a sum that is the sum of its children's sums
RedbSumsConsistent(ns) ==
    \A hash \in NodeHashes :
        RedKey(ns, hash) \in DOMAIN redb_branches =>
            \A rec \in {deserialize_branch(redb_branches[RedKey(ns, hash)])} :
                /\ RedbStored(ns, rec.left) \/ IsEmptyHash(rec.left)
                /\ RedbStored(ns, rec.right) \/ IsEmptyHash(rec.right)
                /\ rec.sum = RedbStoredSum(ns, rec.left)
                             + RedbStoredSum(ns, rec.right)
SqlSumsConsistent(ns) ==
    \A row \in sql_nodes :
        (row.namespace = ns /\ row.l_hash_key # NULL) =>
            /\ SqlStored(ns, row.l_hash_key) \/ IsEmptyHash(row.l_hash_key)
            /\ SqlStored(ns, row.r_hash_key) \/ IsEmptyHash(row.r_hash_key)
            /\ AsU64(row.sum) = SqlStoredSum(ns, row.l_hash_key)
                                + SqlStoredSum(ns, row.r_hash_key)

\* C12 as stated: when every stored branch has the sum of its children, the
\* branch get_root() returns has the sum of the two children it is returned
\* with, in both backends.
C12_SumInvariant ==
    (last.op = "get_root") =>
       /\ (RedbSumsConsistent(redb_ns) /\ last.redb.kind = "Branch") =>
             last.redb.sum = last.redb.left.sum + last.redb.right.sum
       /\ (SqlSumsConsistent(sql_ns) /\ last.sqlite.kind = "Branch") =>
             last.sqlite.sum = last.sqlite.left.sum + last.sqlite.right.sum

\* two answers name the same node: the same kind, hash and sum
SameNode(a, b) ==
    /\ a.kind = b.kind
    /\ a.kind # "None" => (a.hash = b.hash /\ a.sum = b.sum)

\* C13 as stated: after the same calls on both stores, get_root and
\* get_children return the same outcome from the key-value backend and from
\* the relational backend: the same node kinds, hashes and sums, or the same
\* error.
C13_BackendEquivalence ==
    /\ last.op = "get_root" => SameNode(last.redb, last.sqlite)
    /\ last.op = "get_children" =>
          /\ last.redb.tag = last.sqlite.tag
          /\ last.redb.tag = "Ok" =>
                /\ SameNode(last.redb.left, last.sqlite.left)
                /\ SameNode(last.redb.right, last.sqlite.right)
          /\ last.redb.tag = "Err" => last.redb.err = last.sqlite.err

\* the rows of mssmt_nodes and mssmt_roots after the call's one statement
SqlWritten(c) ==
    [nodes |->
        IF c.op = "insert_leaf"
        THEN sql_nodes \cup {SqlRow(c.key, NULL, NULL, NULL, c.arg.value,
                                    AsI64(c.arg.sum), sql_ns)}
        ELSE IF c.op = "insert_branch"
        THEN sql_nodes \cup {SqlRow(c.key, c.arg.left, c.arg.right, NULL, NULL,
                                    AsI64(c.arg.sum), sql_ns)}
        ELSE IF c.op = "insert_compact_leaf"
        THEN sql_nodes \cup {SqlRow(c.key, NULL, NULL, c.arg.key,
                                    c.arg.leaf.value, AsI64(c.arg.leaf.sum),
                                    sql_ns)}
        ELSE IF c.op \in DeleteOps
        THEN sql_nodes \ SqlNodeRows(sql_ns, c.key)
        ELSE sql_nodes,
     roots |->
        IF c.op = "update_root"
        THEN (sql_roots \ SqlRootRows(sql_ns))
             \cup {[root_hash |-> c.key, namespace |-> sql_ns]}
        ELSE sql_roots]

\* C16: every insert, delete and update_root leaves the tables of a backend
\* either exactly as they were or with the whole effect of the call; a call
\* that returns an error, or during which the engine fails at any step,
\* leaves them as they were, and a call that succeeds on the key-value
\* backend has its whole effect.
C16_PerCallAtomic ==
    [][last'.op \in MutatingOps =>
          \A c \in {[op |-> last'.op, arg |-> last'.arg, key |-> last'.key]} :
             /\ \/ UNCHANGED redb_vars
                \/ /\ redb_branches' = RedbWritten(c).branches
                   /\ redb_leaves' = RedbWritten(c).leaves
                   /\ redb_compact' = RedbWritten(c).compact
                   /\ redb_roots' = RedbWritten(c).roots
                   /\ last'.redb = Ok
             /\ last'.redb.tag = "Err" => UNCHANGED redb_vars
             /\ last'.redb = Ok =>
                   /\ redb_branches' = RedbWritten(c).branches
                   /\ redb_leaves' = RedbWritten(c).leaves
                   /\ redb_compact' = RedbWritten(c).compact
                   /\ redb_roots' = RedbWritten(c).roots
             /\ \/ UNCHANGED sql_vars
                \/ /\ sql_nodes' = SqlWritten(c).nodes
                   /\ sql_roots' = SqlWritten(c).roots
                   /\ last'.sqlite = Ok
             /\ last'.sqlite.tag = "Panic" => UNCHANGED sql_vars]_vars

\* an insert_branch of a branch not stored before failed at commit()
C16_Witness ==
    /\ last.op = "insert_branch"
    /\ last.redb.tag = "Err"
    /\ last.redb.at = "commit"
    /\ ~last.pre.branch
    /\ ~RedbStored(redb_ns, last.key)
    /\ ~SqlStored(sql_ns, last.key)

\* the table holds the same record under the key after the step
RecordKept(table, after, key) ==
    key \in DOMAIN table => (key \in DOMAIN after /\ after[key] = table[key])

\* C17 as stated: a node stored under a namespace keeps its record, in both
\* backends, through every call that is not a delete call for its hash in
\* that namespace.
C17_NodeLifetime ==
    [][\A ns \in Namespaces, hash \in NodeHashes :
          ~(last'.op \in DeleteOps /\ last'.key = hash /\ last'.ns = ns) =>
             /\ RecordKept(redb_branches, redb_branches', RedKey(ns, hash))
             /\ RecordKept(redb_leaves, redb_leaves', RedKey(ns, hash))
             /\ RecordKept(redb_compact, redb_compact', RedKey(ns, hash))
             /\ SqlNodeRows(ns, hash) \subseteq sql_nodes']_vars

\* the clones whose call is running the method of the wrapped store, or has
\* run it and not yet dropped the guard
Executing == {c \in Clones : pc[c] \in {"run", "unlock"}}

\* C18: with the clones of one ArcTreeStore called concurrently, at most one
\* contract operation is executing against the wrapped store at any instant,
\* and a clone holds the guard exactly while its operation is executing: the
\* guard is free between two calls.
C18_MutualExclusion ==
    /\ Cardinality(Executing) <= 1
    /\ \A c \in Clones : (guard = c) <=> (c \in Executing)
    /\ (guard = "free") <=> (Executing = {})

\* one clone runs its operation while the other waits for the guard
C18_Witness ==
    /\ pc["c1"] = "run"
    /\ guard = "c1"
    /\ pc["c2"] = "lock"

\* some step of a call in progress can be taken
NoDeadlock ==
    (\E c \in Clones : pc[c] # "idle") =>
        \E c \in Clones :
            ENABLED Acquire(c) \/ ENABLED Execute(c) \/ ENABLED Release(c)

\* C19: no clone requests the guard while it holds it, no reachable state
\* is a deadlock, and under fair scheduling every operation invoked through
\* a clone acquires the guard and returns.
C19_Progress ==
    /\ [](\A c \in Clones : pc[c] = "lock" => guard # c)
    /\ []NoDeadlock
    /\ \A c \in Clones : (pc[c] = "lock") ~> (pc[c] = "run")
    /\ \A c \in Clones : (pc[c] # "idle") ~> (pc[c] = "idle")

\* a clone waits for the guard the other clone holds
C19_Witness ==
    /\ pc["c2"] = "lock"
    /\ guard = "c1"
    /\ pc["c1"] = "unlock"

\* C20: a call through any clone returns what the same method returns on the
\* wrapped store in the same state and has the same effect on it, and all
\* clones act on the one wrapped store.
C20_Transparent ==
    [][\A c \in Clones :
          (pc[c] = "run" /\ pc'[c] = "unlock") =>
             \A call \in {req[c]} :
                /\ call.op = "get_root" =>
                      req'[c].ret = RedbGetRootNode(redb_ns)
                /\ call.op = "get_children" =>
                      req'[c].ret =
                         RedbGetChildren(redb_ns, call.height, call.key)
                /\ call.op = "get_leaf" =>
                      req'[c].ret = RedbGetLeaf(redb_ns, call.key)
                /\ call.op \in {"get_root", "get_children", "get_leaf"} =>
                      UNCHANGED redb_vars
                /\ call.op \in MutatingOps =>
                      /\ req'[c].ret = Ok
                      /\ redb_branches' = RedbWritten(call).branches
                      /\ redb_leaves' = RedbWritten(call).leaves
                      /\ redb_compact' = RedbWritten(call).compact
                      /\ redb_roots' = RedbWritten(call).roots
                      /\ UNCHANGED redb_ns
                /\ call.op = "set_namespace" =>
                      /\ redb_ns' = call.arg
                      /\ UNCHANGED <<redb_branches, redb_leaves, redb_compact,
                                     redb_roots>>
                /\ \A d \in Clones \ {c} : req'[d] = req[d]]_vars

\* the leaf one clone inserted was returned by get_leaf through the other
C20_Witness ==
    /\ req["c1"].op = "insert_leaf"
    /\ pc["c1"] = "idle"
    /\ req["c2"].op = "get_leaf"
    /\ pc["c2"] = "idle"
    /\ req["c2"].ret.kind = "Leaf"
    /\ req["c2"].ret.hash = req["c1"].key

\* the call returned a failure of the storage engine to its caller
IsEngineFailure(ret) ==
    /\ "tag" \in DOMAIN ret
    /\ \/ ret.tag = "Panic"
       \/ ret.tag = "Err" /\ ret.err = "DbError"

\* C21: a contract call during which the storage engine fails, the reads
\* get_root and get_children included, reports a failure to its caller in
\* both backends: it does not return "no root", NodeNotFound or empty
\* children instead.
C21_FailurePropagated ==
    engine = "failing" =>
        /\ IsEngineFailure(last.redb)
        /\ IsEngineFailure(last.sqlite)

\* the root record of the namespace does not have the length of a hash
RedbRootMalformed(ns) ==
    /\ ns \in DOMAIN redb_roots
    /\ Len(redb_roots[ns]) # HASH_LEN
SqlRootMalformed(ns) ==
    \E row \in SqlRootRows(ns) : Len(row.root_hash) # HASH_LEN

\* the read ended in an error or a panic
IsFatal(ret) ==
    /\ "tag" \in DOMAIN ret
    /\ ret.tag \in {"Err", "Panic"}

\* C22: a read that meets a stored record of the wrong length fails: get_root
\* called on a namespace whose root record is not a hash long does not
\* return "no root" or a node, in both backends.
C22_MalformedFatal ==
    [][(nops' = nops + 1 /\ last'.op = "get_root") =>
          /\ RedbRootMalformed(redb_ns) => IsFatal(last'.redb)
          /\ SqlRootMalformed(sql_ns) => IsFatal(last'.sqlite)]_vars

\* the Config values a store can publish from the given one
OneSetterFrom(config) ==
    {NewInner(config, set.field, set.value) : set \in Setters}

\* C23: a Config obtained from load() never changes afterwards, whatever
\* setters follow or run concurrently, and every loaded snapshot is a value
\* published in full: the Config of new(), or a published Config with the one
\* field of one setter replaced.
C23_SnapshotImmutable ==
    /\ \A t \in Threads :
          cfg_held[t].ptr # 0 =>
             /\ cfg_held[t].ptr \in 1..Len(cfg_heap)
             /\ cfg_heap[cfg_held[t].ptr] = cfg_held[t].seen
    /\ cfg_heap[1] = Config0
    /\ \A i \in 2..Len(cfg_heap) :
          \E j \in 1..(i - 1) : cfg_heap[i] \in OneSetterFrom(cfg_heap[j])

\* a thread holds the snapshot of new() after two stores have replaced it, and
\* the other thread holds the first of the two
C23_Witness ==
    /\ cfg_held["t1"].ptr = 1
    /\ cfg_cur = 3
    /\ cfg_heap[3] # cfg_held["t1"].seen
    /\ cfg_pc["t2"] = "idle"
    /\ cfg_held["t2"].ptr = 2

\* total(change proofs), an absent change counted as zero
ChangeTotal(change) == IF change = NoChange THEN 0 ELSE SumOf(change)

\* C24: Melted::from_proofs returns fee_paid = total(proofs) - (amount +
\* total(change)), so that total_amount() = amount + fee_paid, and returns
\* the AmountOverflow error when amount plus change exceeds the total of the
\* proofs.
C24_FeePaid ==
    (melted.called /\ SumOf(melted.proofs) <= AmountMax
     /\ ChangeTotal(melted.change) <= AmountMax) =>
       \A need \in {melted.amount + ChangeTotal(melted.change)} :
          /\ need <= SumOf(melted.proofs) =>
                /\ melted.out.tag = "Ok"
                /\ melted.out.fee_paid = SumOf(melted.proofs) - need
                /\ MeltedTotalAmount(melted.out) =
                      {[tag |-> "Ok",
                        amount |-> melted.amount + melted.out.fee_paid]}
          /\ need > SumOf(melted.proofs) =>
                IsErr(melted.out, "AmountOverflow")

\* the sums the round trip is tried on: the least, the greatest, and the
\* least with the top bit set
RoundTripSums == {0, 1, 2 ^ (SumBits - 1), 2 ^ SumBits - 1}

\* leaves with a value and leaves with an empty value
RoundTripLeaves ==
    LeafInputs \cup {[value |-> <<>>, sum |-> sum] : sum \in RoundTripSums}

\* the children get_children returned, when it returned children
ReturnedChildren(ret) ==
    IF ret.tag = "Ok" /\ "left" \in DOMAIN ret THEN {ret.left, ret.right}
    ELSE {}

\* the child is a node that was inserted: it has the kind, hash and sum,
\* and for leaves the value and key, of an argument of the insert calls
IsInserted(node) ==
    /\ node.kind = "Leaf" =>
          \E l \in LeafInputs : node = LeafNode(l.value, l.sum)
    /\ node.kind = "Compact" =>
          \E c \in CompactInputs : node = CompactNode(c.hash, c.leaf, c.key)
    /\ node.kind \in {"Branch", "Computed"} =>
          \E b \in BranchInputs : node.hash = b.hash /\ node.sum = b.sum

RedbTablesHolding(ns, hash) ==
    {t \in {"branch", "leaf", "compact"} :
        \/ t = "branch" /\ RedKey(ns, hash) \in DOMAIN redb_branches
        \/ t = "leaf" /\ RedKey(ns, hash) \in DOMAIN redb_leaves
        \/ t = "compact" /\ RedKey(ns, hash) \in DOMAIN redb_compact}

\* Branch if the branch table holds the hash, otherwise Leaf if the leaf
\* table does, otherwise Compact
ProbeOrderKind(tables) ==
    IF "branch" \in tables THEN "Branch"
    ELSE IF "leaf" \in tables THEN "Leaf"
    ELSE "Compact"

\* C26: in the key-value backend, when more than one table holds a record
\* under the same namespace and hash, the node reconstructed from the hash is
\* the Branch if one exists, otherwise the Leaf, otherwise the CompactLeaf,
\* in the closure of get_branch and in the closure of get_children.
C26_ProbeOrder ==
    \A ns \in Namespaces, hash \in NodeHashes :
       \A tables \in {RedbTablesHolding(ns, hash)} :
          Cardinality(tables) > 1 =>
             /\ RedbBranchChild(ns, hash).kind = ProbeOrderKind(tables)
             /\ \A height \in Heights :
                   RedbGetNode(ns, height, hash).kind = ProbeOrderKind(tables)

\* get_children returned the Leaf as the left child of B1 while the leaf
\* table and the compact-leaf table both hold its hash
C26_Witness ==
    /\ last.op = "get_children"
    /\ last.key = B1.hash
    /\ last.redb.tag = "Ok"
    /\ last.redb.left.kind = "Leaf"
    /\ RedbTablesHolding(redb_ns, B1.left) = {"leaf", "compact"}

\* C27: in the key-value backend, a child hash that matches no record in the
\* branch, leaf or compact-leaf table is reconstructed as the empty node of
\* the depth at which the hash occurs: the children of the branch get_root
\* returns are at depth 1, the children get_children(height, ..) returns are
\* at depth height + 1.
C27_FallbackEmptyNode ==
    /\ (last.op = "get_root" /\ last.redb.kind = "Branch") =>
          \A rec \in {deserialize_branch(
                         redb_branches[RedKey(redb_ns, last.redb.hash)])} :
             /\ ~RedbStored(redb_ns, rec.left) =>
                   last.redb.left = EmptyNode(1)
             /\ ~RedbStored(redb_ns, rec.right) =>
                   last.redb.right = EmptyNode(1)
    /\ (last.op = "get_children" /\ last.redb.tag = "Ok" /\ last.pre.branch) =>
          \A rec \in {deserialize_branch(
                         redb_branches[RedKey(redb_ns, last.key)])} :
             /\ ~RedbStored(redb_ns, rec.left) =>
                   last.redb.left = EmptyNode(last.height + 1)
             /\ ~RedbStored(redb_ns, rec.right) =>
                   last.redb.right = EmptyNode(last.height + 1)

\* C28: get_children of the relational backend follows the child-hash links
\* from the requested node within the current namespace and stops at the
\* depth bound: it visits no node three or more links below the requested
\* node, and builds its result from the direct children of that node only.
C28_DepthBound ==
    (last.op = "get_children") =>
       \A anchor \in SqlNodeRows(sql_ns, last.key) :
          /\ CteVisited(anchor) \subseteq CteBelow(anchor)
          /\ last.sqlite =
                SqlChildrenOf(anchor, CteStep({anchor}), last.height)

\* the records of a table of the key-value backend that belong to the
\* namespace: those whose key is the namespace followed by a hash
RedbRecordsOf(table, ns) ==
    [k \in {k \in DOMAIN table :
               /\ Len(k) = Len(ns) + HASH_LEN
               /\ SubSeq(k, 1, Len(ns)) = ns} |-> table[k]]

\* everything stored for the namespace, in both backends
StoredFor(ns) ==
    [branches |-> RedbRecordsOf(redb_branches, ns),
     leaves |-> RedbRecordsOf(redb_leaves, ns),
     compact |-> RedbRecordsOf(redb_compact, ns),
     root |-> IF ns \in DOMAIN redb_roots THEN <<redb_roots[ns]>> ELSE <<>>,
     rows |-> {row \in sql_nodes : row.namespace = ns},
     sql_root |-> SqlRootRows(ns)]

C30_MigrateIdempotent ==
    [][(last'.op = "migrate" /\ nops' = nops + 1) =>
          /\ last'.redb = Ok
          /\ UNCHANGED redb_vars]_vars

\* migrate() was called twice in a row on a store that holds a branch, a
\* leaf and a root
C30_Witness ==
    /\ last.op = "migrate"
    /\ last.repeat
    /\ redb_branches # <<>>
    /\ redb_leaves # <<>>
    /\ redb_roots # <<>>

\* the fields of Config
ConfigFields == {"keysets", "mint_info", "quote_ttl"}

\* C31: a setter that runs with no concurrent writer (the Config it loaded is
\* still the current one when it stores) leaves the current Config with its
\* own field equal to the argument and the other two fields as they were
\* before the call.
C31_SetterFrame ==
    [][\A t \in Threads :
          (/\ cfg_pc[t] = "loaded"
           /\ cfg_pc'[t] = "idle"
           /\ cfg_new[t].current = cfg_cur) =>
             /\ cfg_heap'[cfg_cur'][cfg_new[t].field] = cfg_new[t].value
             /\ \A g \in ConfigFields \ {cfg_new[t].field} :
                   cfg_heap'[cfg_cur'][g] = cfg_heap[cfg_cur][g]]_vars

\* set_mint_info("m1") then set_quote_ttl("ttl1"), one after the other: the
\* second setter loaded the Config the first one stored
C31_Witness ==
    /\ Len(cfg_heap) = 3
    /\ cfg_cur = 3
    /\ InSetter = {}
    /\ cfg_heap[2] = [Config0 EXCEPT !.mint_info = "m1"]
    /\ cfg_heap[3] = [keysets |-> "k0", mint_info |-> "m1", quote_ttl |-> "ttl1"]

\* C32: when set_quote_ttl(q) and set_mint_info(m) are called by two threads
\* on one SwappableConfig, in either order of their stores, then once both
\* have returned the current Config has quote_ttl = q and mint_info = m. The
\* two stores are the second and third allocation: the first one set the
\* field in which it differs from the Config of new(), the second one the
\* other field.
C32_NoLostUpdate ==
    (/\ Len(cfg_heap) = 3
     /\ InSetter = {}
     /\ \/ /\ cfg_heap[2].quote_ttl # Config0.quote_ttl
           /\ cfg_heap[3].mint_info # Config0.mint_info
        \/ /\ cfg_heap[2].mint_info # Config0.mint_info
           /\ cfg_heap[3].quote_ttl # Config0.quote_ttl) =>
       /\ cfg_heap[cfg_cur].quote_ttl # Config0.quote_ttl
       /\ cfg_heap[cfg_cur].mint_info # Config0.mint_info

\* C33: an operation an owner issues through its clone after its own
\* set_namespace(n) runs against namespace n, whatever set_namespace calls
\* the other owners made on their clones in between: the wrapped store is in
\* namespace n when the operation executes, and a leaf the owner inserts is
\* stored under n.
C33_OwnNamespace ==
    [][\A c \in Clones :
          (/\ pc[c] = "run"
           /\ pc'[c] = "unlock"
           /\ req[c].op # "set_namespace"
           /\ own_ns[c] # NoNamespace) =>
             /\ redb_ns = own_ns[c]
             /\ req[c].op = "insert_leaf" =>
                   RedKey(own_ns[c], req[c].key) \in DOMAIN redb_leaves']_vars

\* the kind of node a row of mssmt_nodes holds, by its columns
SqlRowKind(row) ==
    IF row.l_hash_key # NULL \/ row.r_hash_key # NULL THEN "branch"
    ELSE IF row.key # NULL THEN "compact"
    ELSE "leaf"

\* the kind of node each delete operation is for
DeleteKind(op) ==
    CASE op = "delete_branch" -> "branch"
      [] op = "delete_leaf" -> "leaf"
      [] op = "delete_compact_leaf" -> "compact"

\* C34: a delete operation removes only a node of its own kind: the tables
\* (key-value backend) and the rows (relational backend) holding nodes of
\* the two other kinds are unchanged, also under the deleted hash, and every
\* node under another hash is unchanged.
C34_DeleteOwnKind ==
    [][(nops' = nops + 1 /\ last'.op \in DeleteOps) =>
          \A kind \in {DeleteKind(last'.op)} :
             /\ kind # "branch" => redb_branches' = redb_branches
             /\ kind # "leaf" => redb_leaves' = redb_leaves
             /\ kind # "compact" => redb_compact' = redb_compact
             /\ \A k \in DOMAIN redb_branches \ {RedKey(redb_ns, last'.key)} :
                   RecordKept(redb_branches, redb_branches', k)
             /\ \A k \in DOMAIN redb_leaves \ {RedKey(redb_ns, last'.key)} :
                   RecordKept(redb_leaves, redb_leaves', k)
             /\ \A k \in DOMAIN redb_compact \ {RedKey(redb_ns, last'.key)} :
                   RecordKept(redb_compact, redb_compact', k)
             /\ \A row \in sql_nodes :
                   (\/ row.hash_key # last'.key
                    \/ row.namespace # sql_ns
                    \/ SqlRowKind(row) # kind) => row \in sql_nodes'
             /\ sql_nodes' \subseteq sql_nodes]_vars

\* the child hash of the branch stored under the hash in the key-value
\* backend when its two child hashes are equal, not the hash of the empty
\* subtree below the height, and a node is stored under it
RedbTwinChild(ns, height, key) ==
    IF RedKey(ns, key) \in DOMAIN redb_branches
    THEN {h \in {deserialize_branch(redb_branches[RedKey(ns, key)]).left} :
             /\ h = deserialize_branch(redb_branches[RedKey(ns, key)]).right
             /\ h # EmptyHash(height + 1)
             /\ RedbStored(ns, h)}
    ELSE {}

\* the same for the row of the relational backend
SqlTwinChild(ns, height, key) ==
    {h \in {AsVec(row.l_hash_key) : row \in SqlNodeRows(ns, key)} :
        /\ \A row \in SqlNodeRows(ns, key) : AsVec(row.r_hash_key) = h
        /\ h # <<>>
        /\ h # EmptyHash(height + 1)
        /\ SqlStored(ns, h)}

\* the result gives the stored node of the hash on both sides
TwinReturned(ret, h) ==
    /\ ret.tag = "Ok"
    /\ ret.left.kind # "Empty"
    /\ ret.left.hash = h
    /\ ret.right = ret.left

\* C35: get_children of a stored branch whose left and right child hashes
\* are equal and non-empty returns the stored child node on the left and on
\* the right, in both backends.
C35_EqualChildren ==
    [][(nops' = nops + 1 /\ last'.op = "get_children") =>
          /\ \A h \in RedbTwinChild(redb_ns, last'.height, last'.key) :
                TwinReturned(last'.redb, h)
          /\ \A h \in SqlTwinChild(sql_ns, last'.height, last'.key) :
                TwinReturned(last'.sqlite, h)]_vars

\* the leaves of the insert calls
AllLeaves == LeafInputs \cup SumLeaves

\* C36: the sum of a node survives storage for every value of its width,
\* the values with the top bit set included: right after insert_leaf,
\* insert_branch or insert_compact_leaf stored a node, the node read back
\* under its hash has the sum that was inserted, in both backends, and every
\* leaf get_children returns has the sum it was inserted with.
C36_SumSurvives ==
    [][(nops' = nops + 1) => \A k \in {last'.key}, node \in {last'.arg} :
          /\ last'.op = "insert_leaf" =>
                /\ RedbGetLeaf(redb_ns, k)'.sum = node.sum
                /\ ~last'.pre.row => SqliteGetLeaf(sql_ns, k)'.sum = node.sum
          /\ last'.op = "insert_branch" =>
                /\ RedbGetBranch(redb_ns, k)'.sum = node.sum
                /\ ~last'.pre.row =>
                      SqliteGetBranch(sql_ns, k)'.sum = node.sum
          /\ last'.op = "insert_compact_leaf" =>
                /\ RedbGetCompactLeaf(redb_ns, k)'.sum = node.leaf.sum
                /\ ~last'.pre.row =>
                      \A row \in SqlNodeRows(sql_ns, k)' :
                         SqlRowNode(row).sum = node.leaf.sum
          /\ last'.op = "get_children" =>
                \A child \in ReturnedChildren(last'.redb)
                              \cup ReturnedChildren(last'.sqlite) :
                   \A l \in AllLeaves :
                      (child.kind = "Leaf" /\ child.hash = LeafHash(l)) =>
                         child.sum = l.sum]_vars

\* get_children returned the leaf of sum u64::MAX as the left child of BS,
\* in both backends
C36_Witness ==
    /\ last.op = "get_children"
    /\ last.key = BS.hash
    /\ last.redb.tag = "Ok"
    /\ last.redb.left = LeafNode(LM.value, 2 ^ SumBits - 1)
    /\ last.sqlite.left = LeafNode(LM.value, 2 ^ SumBits - 1)

====
